---- MODULE Spec2Model ----
(***************************************************************************)
(* A model of the core of ClickerMonkey/rez: the validator (Validate and   *)
(* the Validator cursor), the schema builder (api.Builder) and the value   *)
(* tree used to bind query/path/form values (queryNode).                   *)
(*                                                                         *)
(* Strings the code inspects (field names, path segments, values) are      *)
(* sequences of one-character strings, so that case folding and integer    *)
(* parsing are computed; identifiers the code only compares (rule ids,     *)
(* data types, kinds) are plain strings.                                   *)
(***************************************************************************)
EXTENDS Integers, Sequences, FiniteSets, TLC

VARIABLES
    \* ---- validator (package rez, validate.go) ----
    vpc,          \* "ready" | "done": position of the validation pass
    schema,       \* the schema handed to Validate
    rawValue,     \* the value handed to Validate
    Provider,     \* ValidationProvider: type name -> ValidationOptions
    v,            \* the cursor handed to Validate: [Path |-> slice header]
    Validations,  \* the failure list *v.Validations of the root cursor
    mem,          \* backing arrays of the []string paths
    panicked,     \* TRUE when the pass ended in a runtime panic
    adds,         \* the Add calls of the pass in order, each as it was when made
    nest,         \* the deepest nesting of branch validations the pass reached
    \* ---- schema builder (package api, builder.go) ----
    build,        \* the Builder: flags, base Document, schemas cache, Collisions
    tags,         \* the json/api tags the declared struct types carry
    doc,          \* the Document the last Build returned
    call,         \* the last GetSchema call: type, node returned, heap before
    \* ---- value tree (package rez, args.go) ----
    values,       \* url.Values: key -> list of values
    todo,         \* the keys the range over values has not yielded yet
    outNode,      \* the tree under construction
    history,      \* per node: the kind its first access gave it, the value last set
    result,       \* position of the binding, its converted value, its error
    \* ---- type descriptors (package rez, args.go) ----
    jsonTypes,    \* the process-wide map of descriptors and the descriptors' heap
    requests,     \* per request goroutine: its position in getType and its caller
    \* ---- runners (package db) ----
    runnables,    \* the call: which runner, the runnables, the pool size
    routine,      \* per goroutine: its position in the function it runs
    shared,       \* what the goroutines share: context, channels, WaitGroup, caller
    \* ---- api tags (package api, builder.go) ----
    annotation,   \* the options a tag is written from, the tag, the schema it is applied to
    \* ---- documents (package api, types.go) ----
    merged,       \* the tag lists of the base document and of the documents merged in
    \* ---- queries (package db, query.go) ----
    query         \* the Query, the rows of the table, the statements sent so far

vvars == <<vpc, schema, rawValue, Provider, v, Validations, mem, panicked, adds, nest>>
bvars == <<build, tags, doc, call>>
tvars == <<values, todo, outNode, history, result>>

cvars == <<jsonTypes, requests>>
rvars == <<runnables, routine, shared>>
ovars == <<annotation>>
mvars == <<merged>>
qvars == <<query>>

vars == <<vpc, schema, rawValue, Provider, v, Validations, mem, panicked, adds, nest,
          build, tags, doc, call, values, todo, outNode, history, result,
          jsonTypes, requests, runnables, routine, shared,
          annotation, merged, query>>

(***************************************************************************)
(* Bounds                                                                  *)
(***************************************************************************)
MaxCursorDepth == 3     \* Next calls made on the root cursor before Validate
MaxNodes == 4           \* Nodes in the longest list handed to Validate

(***************************************************************************)
(* Strings                                                                 *)
(***************************************************************************)
UpperChars == <<"A","B","C","D","E","F","G","H","I","J","K","L","M",
                "N","O","P","Q","R","S","T","U","V","W","X","Y","Z">>
LowerChars == <<"a","b","c","d","e","f","g","h","i","j","k","l","m",
                "n","o","p","q","r","s","t","u","v","w","x","y","z">>
DigitChars == <<"0","1","2","3","4","5","6","7","8","9">>

ToLowerChar(c) ==
    IF \E i \in 1..26 : UpperChars[i] = c
    THEN LowerChars[CHOOSE i \in 1..26 : UpperChars[i] = c]
    ELSE c

\* strings.ToLower
ToLower(s) == [i \in 1..Len(s) |-> ToLowerChar(s[i])]

\* strings.EqualFold
EqualFold(s, t) == ToLower(s) = ToLower(t)

IsDigit(c) == \E i \in 1..10 : DigitChars[i] = c
DigitVal(c) == (CHOOSE i \in 1..10 : DigitChars[i] = c) - 1

\* strconv.Atoi on the short strings used here: an optional sign, then digits
RECURSIVE DigitsValue(_)
DigitsValue(d) ==
    IF d = <<>> THEN 0 ELSE 10 * DigitsValue(SubSeq(d, 1, Len(d) - 1)) + DigitVal(d[Len(d)])
Atoi(x) ==
    LET digits == IF x # <<>> /\ Head(x) \in {"+", "-"} THEN Tail(x) ELSE x
    IN IF digits # <<>> /\ \A i \in 1..Len(digits) : IsDigit(digits[i])
       THEN [err |-> FALSE, i |-> IF Head(x) = "-" THEN -DigitsValue(digits) ELSE DigitsValue(digits)]
       ELSE [err |-> TRUE, i |-> 0]

\* strconv.ParseBool
ParseBool(x) ==
    IF x \in {<<"1">>, <<"t">>, <<"T">>, <<"t","r","u","e">>, <<"T","R","U","E">>, <<"T","r","u","e">>}
    THEN [err |-> FALSE, b |-> TRUE]
    ELSE IF x \in {<<"0">>, <<"f">>, <<"F">>, <<"f","a","l","s","e">>, <<"F","A","L","S","E">>,
                   <<"F","a","l","s","e">>}
    THEN [err |-> FALSE, b |-> FALSE]
    ELSE [err |-> TRUE, b |-> FALSE]

RECURSIVE NatToStr(_)
NatToStr(n) ==
    IF n < 10 THEN <<DigitChars[n + 1]>>
    ELSE NatToStr(n \div 10) \o <<DigitChars[(n % 10) + 1]>>

\* fmt.Sprintf("%v", n) for an integer n
IntToStr(n) == IF n < 0 THEN <<"-">> \o NatToStr(-n) ELSE NatToStr(n)

\* Go's % on integers: the remainder has the sign of the dividend.
GoRem(a, b) ==
    LET aa == IF a < 0 THEN -a ELSE a
        bb == IF b < 0 THEN -b ELSE b
        r  == aa % bb
    IN IF a < 0 THEN -r ELSE r

(***************************************************************************)
(* []string slices: a header (array, len) over a backing array; arr = 0 is *)
(* the zero-capacity array.  mem[arr] has one slot per unit of capacity.   *)
(***************************************************************************)
EmptySlice == [arr |-> 0, len |-> 0, isnil |-> FALSE]   \* make([]string, 0)
NilSlice == [arr |-> 0, len |-> 0, isnil |-> TRUE]       \* a nil []string

Cap(m, s) == IF s.arr = 0 THEN 0 ELSE Len(m[s.arr])

\* the elements a slice header denotes
Elems(m, s) == IF s.len = 0 THEN <<>> ELSE SubSeq(m[s.arr], 1, s.len)

\* append(s, x) for a []string: in place when capacity allows, otherwise a
\* new array of doubled capacity (1, 2, 4, 8, ...).
AppendSlice(m, s, x) ==
    IF s.len < Cap(m, s)
    THEN [mem   |-> [m EXCEPT ![s.arr][s.len + 1] = x],
          slice |-> [arr |-> s.arr, len |-> s.len + 1, isnil |-> FALSE]]
    ELSE LET newcap == IF Cap(m, s) = 0 THEN 1 ELSE 2 * Cap(m, s)
             old    == Elems(m, s)
             fresh  == [i \in 1..newcap |->
                          IF i <= s.len THEN old[i]
                          ELSE IF i = s.len + 1 THEN x ELSE <<>>]
         IN [mem   |-> Append(m, fresh),
             slice |-> [arr |-> Len(m) + 1, len |-> s.len + 1, isnil |-> FALSE]]


(***************************************************************************)
(* Go values handed to Validate.  typ is the name of the concrete type     *)
(* (pointers removed), which is what the ValidationProvider is asked for.  *)
(***************************************************************************)
NilValue == [kind |-> "nil"]                    \* an interface holding nothing
IntValue(n) == [kind |-> "int", typ |-> "int", n |-> n]
StringValue(s) == [kind |-> "string", typ |-> "string", s |-> s]
\* a pointer: elem is <<>> for a nil pointer and <<x>> for a pointer to x
PointerValue(typ, addr, elem) == [kind |-> "ptr", typ |-> typ, addr |-> addr, elem |-> elem]
SliceValue(typ, isnil, items) == [kind |-> "slice", typ |-> typ, isnil |-> isnil, items |-> items]
\* a map with the order in which this run's MapRange yields its keys
MapValue(typ, isnil, keys, vals) == [kind |-> "map", typ |-> typ, isnil |-> isnil, keys |-> keys, vals |-> vals]
\* a struct: fields are [Name, Json, Exported, Anonymous, value] in declaration order
StructValue(typ, fields) == [kind |-> "struct", typ |-> typ, fields |-> fields]
StructField(name, json, anonymous, value) ==
    [Name |-> name, Json |-> json, Exported |-> TRUE, Anonymous |-> anonymous, value |-> value]

\* Types whose values implement CanValidateFull / CanValidatePost (both with
\* value receivers, as File and SearchQuery do).
FullTypes == {"Full"}
PostTypes == {"Post"}

\* concrete: follow pointers; a nil pointer ends in the invalid reflect.Value
RECURSIVE concrete(_)
concrete(val) ==
    IF val.kind = "ptr"
    THEN IF val.elem = <<>> THEN NilValue ELSE concrete(val.elem[1])
    ELSE val

\* concreteType: the type with pointers removed; reflect.TypeOf(nil) is the nil
\* Type, and calling Kind on it is a nil dereference.
concreteTypePanics(val) == val.kind = "nil"
concreteType(val) == val.typ

isNull(val) ==
    \/ val.kind = "nil"
    \/ val.kind = "ptr" /\ val.elem = <<>>
    \/ val.kind \in {"slice", "map"} /\ val.isnil

\* fmt.Sprintf("%v", value): a pointer prints as &{...} only at the top level
\* and only when it points to a struct, slice or map; elsewhere as an address.
RECURSIVE Sprint(_, _)
RECURSIVE JoinValues(_)
JoinValues(xs) ==
    IF Len(xs) = 0 THEN <<>>
    ELSE IF Len(xs) = 1 THEN Sprint(xs[1], FALSE)
    ELSE Sprint(xs[1], FALSE) \o <<" ">> \o JoinValues(Tail(xs))
Sprint(value, top) ==
    CASE value.kind = "nil" -> <<"<","n","i","l",">">>
      [] value.kind = "int" -> IntToStr(value.n)
      [] value.kind = "string" -> value.s
      [] value.kind = "ptr" ->
            IF value.elem = <<>> THEN <<"<","n","i","l",">">>
            ELSE IF top /\ value.elem[1].kind \in {"struct", "slice", "map"}
                 THEN <<"&">> \o Sprint(value.elem[1], FALSE)
                 ELSE <<"0","x">> \o IntToStr(value.addr)
      [] value.kind = "slice" -> <<"[">> \o JoinValues(value.items) \o <<"]">>
      [] value.kind = "map" -> <<"m","a","p","[">> \o JoinValues(value.vals) \o <<"]">>
      [] value.kind = "struct" ->
            <<"{">> \o JoinValues([i \in 1..Len(value.fields) |-> value.fields[i].value]) \o <<"}">>

toString(value) == Sprint(value, TRUE)

isTextuallyEqual(x, y) == toString(x) = toString(y)

\* reflect.New(val.Type()).Elem().Interface(): the zero value of val's type
RECURSIVE ZeroOf(_)
ZeroOf(val) ==
    CASE val.kind = "int" -> IntValue(0)
      [] val.kind = "string" -> StringValue(<<>>)
      [] val.kind = "ptr" -> [val EXCEPT !.elem = <<>>]
      [] val.kind = "slice" -> [val EXCEPT !.isnil = TRUE, !.items = <<>>]
      [] val.kind = "map" -> [val EXCEPT !.isnil = TRUE, !.keys = <<>>, !.vals = <<>>]
      [] val.kind = "struct" ->
            [val EXCEPT !.fields = [i \in 1..Len(val.fields) |->
                [val.fields[i] EXCEPT !.value = ZeroOf(val.fields[i].value)]]]
      [] OTHER -> val

isZero(val) == isTextuallyEqual(val, ZeroOf(val))

\* GetJSONOptions: the wire name of a field, whether it is optional, whether
\* it is skipped.  Json is the json tag already split on ",".
GetJSONOptions(field) ==
    [property |-> IF field.Json[1] # <<"-">> /\ field.Json[1] # <<>>
                  THEN field.Json[1] ELSE field.Name,
     optional |-> Len(field.Json) > 1 /\ EqualFold(field.Json[2], <<"o","m","i","t","e","m","p","t","y">>),
     skip     |-> field.Json[1] = <<"-">> \/ ~field.Exported]


(***************************************************************************)
(* api.Schema as the validator reads it.  Pointer fields (to int, Schema)  *)
(* are <<>> for nil and <<x>> otherwise.  Properties is a function from    *)
(* property names; HasProperties tells a nil map from an empty one.        *)
(***************************************************************************)
NewSchema ==
    [Reference |-> <<>>, Name |-> <<>>, Type |-> "", Nullable |-> FALSE,
     Deprecated |-> FALSE, MultipleOf |-> 0,
     Minimum |-> <<>>, ExclusiveMinimum |-> FALSE,
     Maximum |-> <<>>, ExclusiveMaximum |-> FALSE,
     MinLength |-> <<>>, MaxLength |-> 0,
     MinItems |-> <<>>, MaxItems |-> 0, Items |-> <<>>, UniqueItems |-> FALSE,
     MinProperties |-> <<>>, MaxProperties |-> 0, AdditionalProperties |-> <<>>,
     HasProperties |-> FALSE, Properties |-> <<>>, Required |-> <<>>,
     Pattern |-> "", Format |-> "", Enum |-> <<>>,
     OneOf |-> <<>>, AllOf |-> <<>>, AnyOf |-> <<>>, Not |-> <<>>]

\* the nil *Schema
NilSchema == [isNilSchema |-> TRUE]

\* the schema registered under a name: Node is the schema the builder
\* derives for type Node struct { Next *Node `json:"next"` }, whose
\* property is oneOf(reference to Node, null)
NodeName == <<"N","o","d","e">>
NextName == <<"n","e","x","t">>
ToRegistered(name) ==
    [NewSchema EXCEPT !.Reference = <<[resolved |-> <<[registered |-> name]>>]>>]
Registered(name) ==
    [NewSchema EXCEPT
        !.Name = name,
        !.Type = "object",
        !.HasProperties = TRUE,
        !.Properties = (NextName :> [NewSchema EXCEPT
                                        !.OneOf = <<ToRegistered(name),
                                                    [NewSchema EXCEPT !.Type = "null"]>>]),
        !.Required = <<NextName>>]

\* Schema.ResolveReference: the schema itself, or the node its reference
\* resolves to (nil when it resolves to nothing).
RECURSIVE ResolveReference(_)
ResolveReference(s) ==
    IF s = NilSchema THEN NilSchema
    ELSE IF s.Reference = <<>> THEN s
    ELSE IF s.Reference[1].resolved = <<>> THEN NilSchema
    ELSE IF "registered" \in DOMAIN s.Reference[1].resolved[1]
    THEN Registered(s.Reference[1].resolved[1].registered)
    ELSE ResolveReference(s.Reference[1].resolved[1])

\* Schema.GetName: the name the schema is registered under, if any
GetSchemaName(s) == s.Name

\* Schema.GetPattern: the compiled pattern, nil when it does not compile
GetPattern(s) == IF s.Pattern \in {"^[0-9]+$", "^a"} THEN <<s.Pattern>> ELSE <<>>

\* Regexp.MatchString for the patterns of the model
MatchString(r, str) ==
    CASE r = "^[0-9]+$" -> Len(str) > 0 /\ \A i \in 1..Len(str) : IsDigit(str[i])
      [] r = "^a" -> Len(str) > 0 /\ str[1] = "a"
      [] OTHER -> FALSE

\* api.FormatRegex: the registry of named formats
FormatRegex == [digits |-> "^[0-9]+$"]

(***************************************************************************)
(* The validator.  st is the memory a pass works on:                       *)
(*   lists[i]  the failure lists a cursor points to, allocated so far       *)
(*   mem       the backing arrays of paths                                 *)
(*   panicked  a panic is unwinding the pass                               *)
(* A cursor is [Path |-> slice header, Validations |-> index of its list]. *)
(***************************************************************************)
ValidationOptions(skip, enforceFormat, failDeprecated) ==
    [Skip |-> skip, EnforceFormat |-> enforceFormat, FailDeprecated |-> failDeprecated]

Validation(rule, name, text, args) ==
    [Path |-> NilSlice, Rule |-> rule, Schema |-> name, Message |-> [text |-> text, args |-> args]]

\* NewValidator.  chain records that the cursor was obtained from the root
\* cursor by Next calls only.
NewValidator == [Path |-> EmptySlice, Validations |-> 1, chain |-> TRUE]
\* adds: every Add call made, in order, with the rule added, the path the
\* failure and the cursor had at that moment, and whether the caller gave
\* the failure a path.
\* nest: the Validate calls now on the stack that a composite rule made on
\* one of its branches, and maxNest, the most there were at a time.
NewMemory ==
    [lists |-> << <<>> >>, mem |-> <<>>, panicked |-> FALSE, adds |-> <<>>,
     nest |-> 0, maxNest |-> 0]

\* a Next whose child cursor gets a list of its own
NextOwnList(vv, path, st) ==
    LET a == AppendSlice(st.mem, vv.Path, path)
    IN [v  |-> [Path |-> a.slice, Validations |-> Len(st.lists) + 1, chain |-> vv.chain],
        st |-> [st EXCEPT !.mem = a.mem, !.lists = Append(@, <<>>)]]

\* Validator.Next: a child cursor with the added path node, sharing the list
Next(vv, path, st) ==
    LET a == AppendSlice(st.mem, vv.Path, path)
    IN [v  |-> [Path |-> a.slice, Validations |-> vv.Validations, chain |-> vv.chain],
        st |-> [st EXCEPT !.mem = a.mem]]

\* the Add call as it was when made: the failure, its path and the
\* cursor's read from the backing arrays of that moment
Added(vv, msg, m, memory) ==
    [Rule |-> m.Rule, Message |-> m.Message,
     Path |-> Elems(memory, m.Path), Cursor |-> Elems(memory, vv.Path),
     chain |-> vv.chain, explicit |-> ~msg.Path.isnil]

\* Validator.Add
Add(vv, msg, st) ==
    IF st.panicked THEN st
    ELSE LET m == IF msg.Path.isnil THEN [msg EXCEPT !.Path = vv.Path] ELSE msg
         IN [st EXCEPT !.lists[vv.Validations] = Append(@, m),
                       !.adds = Append(@, Added(vv, msg, m, st.mem))]

\* a Detach that keeps pointing to the parent's list
DetachSharingList(vv, st) == [v |-> [vv EXCEPT !.chain = FALSE], st |-> st]

\* Validator.Detach: same path, a list of its own
Detach(vv, st) ==
    [v  |-> [Path |-> vv.Path, Validations |-> Len(st.lists) + 1, chain |-> FALSE],
     st |-> [st EXCEPT !.lists = Append(@, <<>>)]]

\* Validator.Attach
Attach(vv, detached, st) ==
    [st EXCEPT !.lists[vv.Validations] = @ \o st.lists[detached.Validations]]

\* the length of the list a cursor points to
NumValidations(vv, st) == Len(st.lists[vv.Validations])

FieldNamed(val, name) ==
    LET i == CHOOSE i \in 1..Len(val.fields) : val.fields[i].Name = name
    IN val.fields[i].value

\* a Validate that finds the full hook on no value
HasFullValidateNever(raw) == FALSE

\* CanValidateFull, as SearchQuery implements it
HasFullValidate(raw) == raw.kind # "nil" /\ raw.typ \in FullTypes
FullValidate(raw, vv, st) ==
    IF isNull(raw) THEN [st EXCEPT !.panicked = TRUE]   \* value receiver through a nil pointer
    ELSE
    LET q  == concrete(raw)
        limit == FieldNamed(q, <<"L","i","m","i","t">>).n
        offset == FieldNamed(q, <<"O","f","f","s","e","t">>).n
        nl == Next(vv, <<"l","i","m","i","t">>, st)
        s1 == IF limit < 0
              THEN Add(nl.v, Validation("", <<>>, "limit must be positive", <<>>), nl.st)
              ELSE IF limit > 1000
              THEN Add(nl.v, Validation("", <<>>, "limit must be less than 1000", <<>>), nl.st)
              ELSE st
        no == Next(vv, <<"o","f","f","s","e","t">>, s1)
    IN IF offset < 0
       THEN Add(no.v, Validation("", <<>>, "offset must be positive", <<>>), no.st)
       ELSE s1

\* CanValidatePost: a hook that reports one failure of its own
HasPostValidate(raw) == raw.kind # "nil" /\ raw.typ \in PostTypes
PostValidate(raw, vv, st) ==
    IF isNull(raw) THEN [st EXCEPT !.panicked = TRUE]
    ELSE Add(vv, Validation("custom", <<>>, "post", <<>>), st)

validateNumber(s, value, raw, vv, st) ==
    LET s1 == IF s.Maximum # <<>> /\
                 ((s.ExclusiveMaximum /\ value >= s.Maximum[1]) \/
                  (~s.ExclusiveMaximum /\ value > s.Maximum[1]))
              THEN Add(vv, Validation("maximum", GetSchemaName(s), "%v exceeds the maximum of %d",
                                      <<toString(raw), IntToStr(s.Maximum[1])>>), st)
              ELSE st
        s2 == IF s.Minimum # <<>> /\
                 ((s.ExclusiveMinimum /\ value <= s.Minimum[1]) \/
                  (~s.ExclusiveMinimum /\ value < s.Minimum[1]))
              THEN Add(vv, Validation("minimum", GetSchemaName(s), "%v is below the minimum of %d",
                                      <<toString(raw), IntToStr(s.Minimum[1])>>), s1)
              ELSE s1
    IN IF s.MultipleOf # 0 /\ GoRem(value, s.MultipleOf) # 0
       THEN Add(vv, Validation("multipleOf", GetSchemaName(s), "%v is not a multiple of %d",
                               <<toString(raw), IntToStr(s.MultipleOf)>>), s2)
       ELSE s2

\* the null check of Validate
ValidateNull(s, vv, st) ==
    IF ~s.Nullable /\ s.Type # "null"
    THEN Add(vv, Validation("nullable", GetSchemaName(s), "", <<>>), st)
    ELSE st

\* the deprecated check of Validate
ValidateDeprecated(s, options, val, vv, st) ==
    IF s.Deprecated /\ ~isZero(val)
    THEN Add(vv, Validation("deprecated", GetSchemaName(s), "", <<>>), st)
    ELSE st

\* a required lookup that compares names exactly
IsRequiredExactCase(s, propertyName) ==
    \E i \in 1..Len(s.Required) : propertyName = s.Required[i]

\* whether propertyName is listed in schema.Required
IsRequired(s, propertyName) ==
    Len(s.Required) > 0 /\ \E i \in 1..Len(s.Required) : EqualFold(propertyName, s.Required[i])

\* the index of the last item that repeats an earlier one, 0 when none does
LastDuplicate(items) ==
    LET dups == {i \in 1..Len(items) : \E j \in 1..(i - 1) : toString(items[j]) = toString(items[i])}
    IN IF dups = {} THEN 0 ELSE CHOOSE i \in dups : \A k \in dups : i >= k

\* the index of the first item that repeats an earlier one, 0 when none does
FirstDuplicate(items) ==
    LET dups == {i \in 1..Len(items) : \E j \in 1..(i - 1) : toString(items[j]) = toString(items[i])}
    IN IF dups = {} THEN 0 ELSE CHOOSE i \in dups : \A k \in dups : i <= k

\* the verdict of the oneOf rule on the number of clean branches
OneOfFails(matches) == matches # 0


(***************************************************************************)
(* Validate(givenSchema, rawValue, v): the recursive walk.  Each operator  *)
(* takes the memory st and returns the memory after it has run.            *)
(***************************************************************************)
RECURSIVE Validate(_, _, _, _)
RECURSIVE ValidateItems(_, _, _, _, _)
RECURSIVE ValidateMapValues(_, _, _, _, _)
RECURSIVE ValidateFields(_, _, _, _, _)
RECURSIVE OneOfMatches(_, _, _, _, _, _)
RECURSIVE ValidateAllOf(_, _, _, _, _)
RECURSIVE AnyOfValid(_, _, _, _, _)

\* Validate(&branch, rawValue, &detached), the call a composite rule makes
\* on a branch: one more call on the stack while it runs
Max(a, b) == IF a > b THEN a ELSE b
EnterBranch(st) == [st EXCEPT !.maxNest = Max(@, st.nest + 1), !.nest = @ + 1]
LeaveBranch(st) == [st EXCEPT !.nest = @ - 1]
ValidateBranch(branch, raw, vv, st) == LeaveBranch(Validate(branch, raw, vv, EnterBranch(st)))

\* for i := 0; i < len; i++ { Validate(schema.Items, item, v.Next(Itoa(i))) }
ValidateItems(s, val, vv, i, st) ==
    IF i > Len(val.items) \/ st.panicked THEN st
    ELSE LET n == Next(vv, IntToStr(i - 1), st)
         IN ValidateItems(s, val, vv, i + 1, Validate(s.Items[1], val.items[i], n.v, n.st))

\* for iter.Next() { Validate(mapValueSchema, mapValue, v.Next(toString(mapKey))) }
ValidateMapValues(s, val, vv, i, st) ==
    IF i > Len(val.keys) \/ st.panicked THEN st
    ELSE LET n == Next(vv, toString(val.keys[i]), st)
         IN ValidateMapValues(s, val, vv, i + 1,
                Validate(s.AdditionalProperties[1], val.vals[i], n.v, n.st))

\* the loop over the fields of a struct
ValidateFields(s, val, vv, i, st) ==
    IF i > Len(val.fields) \/ st.panicked THEN st
    ELSE
    LET field == val.fields[i]
        o == GetJSONOptions(field)
        propertyName == o.property
    IN IF o.skip THEN ValidateFields(s, val, vv, i + 1, st)
       ELSE IF isNull(field.value)
       THEN ValidateFields(s, val, vv, i + 1,
                IF IsRequired(s, propertyName)
                THEN Add(vv, Validation("required", GetSchemaName(s), "%s is a required field",
                                        <<propertyName>>), st)
                ELSE st)
       ELSE LET n == Next(vv, propertyName, st)
            IN ValidateFields(s, val, vv, i + 1,
                 IF field.Anonymous THEN Validate(s, field.value, n.v, n.st)
                 ELSE IF propertyName \in DOMAIN s.Properties
                      THEN Validate(s.Properties[propertyName], field.value, n.v, n.st)
                      ELSE n.st)

\* the oneOf loop: the number of branches found clean (it stops at two)
OneOfMatches(branches, raw, vv, i, matches, st) ==
    IF i > Len(branches) THEN [matches |-> matches, st |-> st]
    ELSE LET d == Detach(vv, st)
             s1 == ValidateBranch(branches[i], raw, d.v, d.st)
         IN IF NumValidations(d.v, s1) = 0
            THEN IF matches + 1 > 1
                 THEN [matches |-> matches + 1, st |-> s1]
                 ELSE OneOfMatches(branches, raw, vv, i + 1, matches + 1, s1)
            ELSE OneOfMatches(branches, raw, vv, i + 1, matches, s1)

\* the allOf loop: one failure for the first branch that is not clean
ValidateAllOf(s, raw, vv, i, st) ==
    IF i > Len(s.AllOf) THEN st
    ELSE LET d == Detach(vv, st)
             s1 == ValidateBranch(s.AllOf[i], raw, d.v, d.st)
         IN IF NumValidations(d.v, s1) # 0
            THEN Add(vv, Validation("allOf", GetSchemaName(s),
                                    "%v does not match all of the possible schemas",
                                    <<toString(raw)>>), s1)
            ELSE ValidateAllOf(s, raw, vv, i + 1, s1)

\* the anyOf loop: whether some branch is clean
AnyOfValid(branches, raw, vv, i, st) ==
    IF i > Len(branches) THEN [valid |-> FALSE, st |-> st]
    ELSE LET d == Detach(vv, st)
             s1 == ValidateBranch(branches[i], raw, d.v, d.st)
         IN IF NumValidations(d.v, s1) = 0
            THEN [valid |-> TRUE, st |-> s1]
            ELSE AnyOfValid(branches, raw, vv, i + 1, s1)

\* the switch on val.Kind()
ValidateKind(s, raw, val, vv, st) ==
    CASE val.kind = "int" -> validateNumber(s, val.n, raw, vv, st)
      [] val.kind = "string" ->
            LET len == Len(val.s)
                s1 == IF s.MinLength # <<>> /\ len < s.MinLength[1]
                      THEN Add(vv, Validation("minLength", GetSchemaName(s),
                                   "%d does not meet the minimum length of %d",
                                   <<IntToStr(len), IntToStr(s.MinLength[1])>>), st)
                      ELSE st
            IN IF s.MaxLength # 0 /\ len > s.MaxLength
               THEN Add(vv, Validation("maxLength", GetSchemaName(s),
                            "%d does not meet the maximum items of %d",
                            <<IntToStr(len), IntToStr(s.MaxLength)>>), s1)
               ELSE s1
      [] val.kind = "slice" ->
            LET len == Len(val.items)
                s1 == IF s.MinItems # <<>> /\ len < s.MinItems[1]
                      THEN Add(vv, Validation("minItems", GetSchemaName(s),
                                   "%d does not meet the minimum items of %d",
                                   <<IntToStr(len), IntToStr(s.MinItems[1])>>), st)
                      ELSE st
                s2 == IF s.MaxItems # 0 /\ len > s.MaxItems
                      THEN Add(vv, Validation("maxItems", GetSchemaName(s),
                                   "%d does not meet the maximum items of %d",
                                   <<IntToStr(len), IntToStr(s.MaxItems)>>), s1)
                      ELSE s1
                s3 == IF s.Items # <<>> THEN ValidateItems(s, val, vv, 1, s2) ELSE s2
                dup == FirstDuplicate(val.items)
            IN IF s.UniqueItems /\ dup # 0
               THEN Add(vv, Validation("uniqueItems", GetSchemaName(s), "%v is not a unique item",
                                       <<toString(val.items[dup])>>), s3)
               ELSE s3
      [] val.kind = "map" ->
            LET len == Len(val.keys)
                s1 == IF s.MinProperties # <<>> /\ len < s.MinProperties[1]
                      THEN Add(vv, Validation("minProperties", GetSchemaName(s),
                                   "%d does not meet the minimum properties of %d",
                                   <<IntToStr(len), IntToStr(s.MinProperties[1])>>), st)
                      ELSE st
                s2 == IF s.MaxProperties # 0 /\ len > s.MaxProperties
                      THEN Add(vv, Validation("maxProperties", GetSchemaName(s),
                                   "%d does not meet the maximum properties of %d",
                                   <<IntToStr(len), IntToStr(s.MaxProperties)>>), s1)
                      ELSE s1
            IN IF s.AdditionalProperties # <<>>
               THEN ValidateMapValues(s, val, vv, 1, s2)
               ELSE s2
      [] val.kind = "struct" ->
            IF ~s.HasProperties THEN st ELSE ValidateFields(s, val, vv, 1, st)
      [] OTHER -> st

\* the checks that follow the switch: pattern, format, enum
ValidatePattern(s, raw, vv, st) ==
    IF s.Pattern # "" /\ GetPattern(s) # <<>> /\ ~MatchString(GetPattern(s)[1], toString(raw))
    THEN Add(vv, Validation("pattern", GetSchemaName(s), "%s does not match the pattern %s",
                            <<toString(raw)>>), st)
    ELSE st

ValidateFormat(s, options, raw, vv, st) ==
    IF s.Format # "" /\ options.EnforceFormat /\ s.Format \in DOMAIN FormatRegex
       /\ ~MatchString(FormatRegex[s.Format], toString(raw))
    THEN Add(vv, Validation("format", GetSchemaName(s), "%s does not match the format %s",
                            <<toString(raw)>>), st)
    ELSE st

ValidateEnum(s, raw, vv, st) ==
    IF Len(s.Enum) > 0 /\ ~\E i \in 1..Len(s.Enum) : isTextuallyEqual(s.Enum[i], raw)
    THEN Add(vv, Validation("enum", GetSchemaName(s), "%v does not match one of the enum values %+v",
                            <<toString(raw)>>), st)
    ELSE st

\* the composite rules
ValidateOneOf(s, raw, vv, st) ==
    IF Len(s.OneOf) > 0
    THEN LET r == OneOfMatches(s.OneOf, raw, vv, 1, 0, st)
         IN IF OneOfFails(r.matches)
            THEN Add(vv, Validation("oneOf", GetSchemaName(s),
                                    "%v does not match one of the possible schemas",
                                    <<toString(raw)>>), r.st)
            ELSE r.st
    ELSE st

ValidateAnyOf(s, raw, vv, st) ==
    IF Len(s.AnyOf) > 0
    THEN LET r == AnyOfValid(s.AnyOf, raw, vv, 1, st)
         IN IF ~r.valid
            THEN Add(vv, Validation("anyOf", GetSchemaName(s),
                                    "%v does not match any of the possible schemas",
                                    <<toString(raw)>>), r.st)
            ELSE r.st
    ELSE st

ValidateNot(s, raw, vv, st) ==
    IF s.Not # <<>>
    THEN LET d == Detach(vv, st)
             s1 == ValidateBranch(s.Not[1], raw, d.v, d.st)
         IN IF NumValidations(d.v, s1) = 0
            THEN Add(vv, Validation("not", GetSchemaName(s), "%v matches the not schema",
                                    <<toString(raw)>>), s1)
            ELSE s1
    ELSE st

Validate(givenSchema, raw, vv, st) ==
    IF st.panicked THEN st
    ELSE IF concreteTypePanics(raw) THEN [st EXCEPT !.panicked = TRUE]
    ELSE IF HasFullValidate(raw) THEN FullValidate(raw, vv, st)
    ELSE
    LET s == ResolveReference(givenSchema)
    IN IF s = NilSchema THEN st
       ELSE
       LET options == Provider[concreteType(raw)]
           val == concrete(raw)
       IN IF options.Skip THEN st
          ELSE IF isNull(val) THEN ValidateNull(s, vv, st)
          ELSE
          LET s1 == ValidateDeprecated(s, options, val, vv, st)
              s2 == ValidateKind(s, raw, val, vv, s1)
              s3 == ValidatePattern(s, raw, vv, s2)
              s4 == ValidateFormat(s, options, raw, vv, s3)
              s5 == ValidateEnum(s, raw, vv, s4)
              s6 == ValidateOneOf(s, raw, vv, s5)
              s7 == IF Len(s.AllOf) > 0 THEN ValidateAllOf(s, raw, vv, 1, s6) ELSE s6
              s8 == ValidateAnyOf(s, raw, vv, s7)
              s9 == ValidateNot(s, raw, vv, s8)
          IN IF HasPostValidate(raw) /\ ~s9.panicked THEN PostValidate(raw, vv, s9) ELSE s9


(***************************************************************************)
(* The schemas, values and providers a validation pass is started with.    *)
(***************************************************************************)
MultipleOfSchema(n) == [NewSchema EXCEPT !.MultipleOf = n]
MinimumSchema(n) == [NewSchema EXCEPT !.Minimum = <<n>>]
OneOfSchema(bs) == [NewSchema EXCEPT !.OneOf = bs]
AllOfSchema(bs) == [NewSchema EXCEPT !.AllOf = bs]
AnyOfSchema(bs) == [NewSchema EXCEPT !.AnyOf = bs]
NotSchema(b) == [NewSchema EXCEPT !.Not = <<b>>]
ObjectSchema(required, props) ==
    [NewSchema EXCEPT !.Required = required, !.HasProperties = TRUE, !.Properties = props]
RefSchema(target) == [NewSchema EXCEPT !.Reference = <<[resolved |-> target]>>]

LeafSchemas ==
    {NewSchema, MultipleOfSchema(2), MultipleOfSchema(3), MinimumSchema(1),
     [NewSchema EXCEPT !.Enum = <<IntValue(1), StringValue(<<"3">>)>>],
     [NewSchema EXCEPT !.Pattern = "^[0-9]+$"],
     [NewSchema EXCEPT !.Format = "digits"],
     [NewSchema EXCEPT !.Type = "null"]}

Branches == {MultipleOfSchema(2), MultipleOfSchema(3), MinimumSchema(1)}

XName == <<"X">>
YName == <<"y">>
XYProperties == [k \in {XName, YName} |-> IF k = XName THEN MultipleOfSchema(2) ELSE MultipleOfSchema(3)]

CompositeSchemas ==
    {OneOfSchema(<<a, b>>) : a, b \in Branches}
    \cup {AllOfSchema(<<MultipleOfSchema(2), MultipleOfSchema(3)>>),
          AnyOfSchema(<<MultipleOfSchema(2), MultipleOfSchema(3)>>),
          NotSchema(MultipleOfSchema(2)),
          OneOfSchema(<<MultipleOfSchema(2), MultipleOfSchema(3), MinimumSchema(1)>>),
          OneOfSchema(<<AllOfSchema(<<MultipleOfSchema(2), MultipleOfSchema(3)>>), MinimumSchema(9)>>),
          AnyOfSchema(<<NotSchema(MultipleOfSchema(2)), OneOfSchema(<<MultipleOfSchema(3), MinimumSchema(1)>>)>>),
          [NewSchema EXCEPT !.OneOf = <<MultipleOfSchema(2), MultipleOfSchema(3)>>,
                            !.AllOf = <<MinimumSchema(1), MultipleOfSchema(3)>>,
                            !.AnyOf = <<MultipleOfSchema(2), MinimumSchema(9)>>,
                            !.Not = <<MultipleOfSchema(3)>>],
          [MultipleOfSchema(2) EXCEPT !.OneOf = <<MultipleOfSchema(3), MinimumSchema(1)>>],
          [ObjectSchema(<<XName>>, XYProperties) EXCEPT !.OneOf = <<ObjectSchema(<<XName>>, XYProperties)>>]}

ObjectSchemas ==
    {ObjectSchema(<<>>, XYProperties), ObjectSchema(<<XName>>, XYProperties),
     ObjectSchema(<<<<"x">>>>, XYProperties), ObjectSchema(<<YName, XName>>, XYProperties),
     ObjectSchema(<<XName>>, <<>>),
     [NewSchema EXCEPT !.Required = <<XName>>],
     [ObjectSchema(<<XName>>, XYProperties) EXCEPT !.Name = <<"T">>]}

ArraySchemas ==
    {[NewSchema EXCEPT !.Items = <<MultipleOfSchema(2)>>],
     [NewSchema EXCEPT !.UniqueItems = TRUE],
     [NewSchema EXCEPT !.Items = <<MultipleOfSchema(2)>>, !.UniqueItems = TRUE, !.MaxItems = 2],
     [NewSchema EXCEPT !.AdditionalProperties = <<MultipleOfSchema(2)>>, !.MinProperties = <<2>>]}

ReferenceSchemas ==
    {RefSchema(<<MultipleOfSchema(2)>>), RefSchema(<<>>),
     RefSchema(<<OneOfSchema(<<MultipleOfSchema(2), MultipleOfSchema(3)>>)>>),
     ToRegistered(NodeName), Registered(NodeName)}

PlainSchemas == LeafSchemas \cup CompositeSchemas \cup ObjectSchemas \cup ArraySchemas

Schemas ==
    PlainSchemas \cup ReferenceSchemas
    \cup {[s EXCEPT !.Nullable = TRUE] : s \in PlainSchemas}
    \cup {[s EXCEPT !.Deprecated = TRUE] : s \in PlainSchemas}

IntPointer(addr, n) == PointerValue("int", addr, <<IntValue(n)>>)
NilIntPointer == PointerValue("int", 0, <<>>)
NoTag == << <<>> >>

TValue(x, y) ==
    StructValue("T", <<StructField(XName, NoTag, FALSE, x),
                       StructField(<<"Y">>, <<YName>>, FALSE, IntValue(y))>>)
EValue(x) == StructValue("E", <<StructField(XName, NoTag, FALSE, IntValue(x))>>)
WValue(x) == StructValue("W", <<StructField(<<"E","m","b","e","d","d","e","d">>, NoTag, TRUE, EValue(x))>>)
SearchQuery(limit, offset) ==
    StructValue("Full", <<StructField(<<"L","i","m","i","t">>, <<<<"l","i","m","i","t">>>>, FALSE, IntValue(limit)),
                          StructField(<<"O","f","f","s","e","t">>, <<<<"o","f","f","s","e","t">>>>, FALSE, IntValue(offset))>>)
PostValue == StructValue("Post", <<>>)
\* a list of n Nodes, the last with a nil Next
RECURSIVE NodeValue(_)
NodeValue(n) ==
    StructValue("Node", <<StructField(<<"N","e","x","t">>, <<NextName>>, FALSE,
                                      IF n = 1 THEN PointerValue("Node", 0, <<>>)
                                      ELSE PointerValue("Node", n, <<NodeValue(n - 1)>>))>>)

Values ==
    {IntValue(n) : n \in {0, 1, 2, 3, 5, 6, 9}}
    \cup {NilValue, NilIntPointer, IntPointer(1, 2), IntPointer(2, 0),
          StringValue(<<"a">>), StringValue(<<"1","2">>)}
    \cup {TValue(x, y) : x \in {NilIntPointer, IntPointer(1, 2), IntPointer(1, 3)}, y \in {0, 3}}
    \cup {PointerValue("T", 3, <<TValue(NilIntPointer, 0)>>), PointerValue("T", 0, <<>>)}
    \cup {WValue(3), WValue(4)}
    \cup {SliceValue("[]int", FALSE, <<IntValue(0), IntValue(2), IntValue(0)>>),
          SliceValue("[]int", FALSE, <<IntValue(0), IntValue(2), IntValue(2), IntValue(0)>>),
          SliceValue("[]int", FALSE, <<IntValue(1), IntValue(2)>>),
          SliceValue("[]int", TRUE, <<>>),
          SliceValue("[]any", FALSE, <<IntValue(2), NilValue>>),
          MapValue("map", FALSE, <<StringValue(<<"a">>)>>, <<IntValue(1)>>)}
    \cup {SearchQuery(-1, 0), SearchQuery(5, -1), SearchQuery(5, 0),
          PointerValue("Full", 0, <<>>), PostValue, PointerValue("Post", 0, <<>>)}

\* linked lists of Nodes, validated with no options configured
Lists == {NodeValue(n) : n \in {1, 2, MaxNodes}}

TypeNames == {"int", "string", "T", "E", "W", "[]int", "[]any", "map", "Full", "Post", "Node"}

NoOptions == ValidationOptions(FALSE, FALSE, FALSE)

Providers ==
    {[typ \in TypeNames |-> o] :
        o \in {NoOptions, ValidationOptions(TRUE, FALSE, FALSE),
               ValidationOptions(FALSE, TRUE, FALSE), ValidationOptions(FALSE, FALSE, TRUE)}}
    \cup {[typ \in TypeNames |-> IF typ = "T" THEN ValidationOptions(FALSE, FALSE, TRUE) ELSE NoOptions],
          [typ \in TypeNames |-> IF typ = "int" THEN ValidationOptions(TRUE, FALSE, FALSE) ELSE NoOptions]}

CursorNames == {<<"p">>}

(***************************************************************************)
(* The validation pass as a state machine.                                 *)
(***************************************************************************)
\* the other components stay as constructed while the validator runs
BuilderIdle == build = <<>> /\ tags = <<>> /\ doc = <<>> /\ call = <<>>
TypesIdle == jsonTypes = <<>> /\ requests = <<>>
RunIdle == runnables = <<>> /\ routine = <<>> /\ shared = <<>>
OptionsIdle == annotation = <<>>
MergeIdle == merged = <<>>
QueryIdle == query = <<>>
TreeIdle ==
    values = <<>> /\ todo = {} /\ outNode = <<>> /\ history = <<>> /\ result = <<>>

InitValidate ==
    /\ vpc = "ready"
    /\ schema \in Schemas
    /\ rawValue \in Values \cup Lists
    /\ Provider \in Providers
    /\ rawValue \in Lists => \A typ \in TypeNames : Provider[typ] = NoOptions
    /\ v = NewValidator
    /\ Validations = <<>>
    /\ mem = <<>>
    /\ panicked = FALSE
    /\ adds = <<>>
    /\ nest = 0
    /\ BuilderIdle
    /\ TreeIdle
    /\ TypesIdle
    /\ RunIdle
    /\ OptionsIdle
    /\ MergeIdle
    /\ QueryIdle

\* v = v.Next(name): the caller descends before it validates
CursorNext(name) ==
    /\ vpc = "ready"
    /\ v.Path.len < MaxCursorDepth
    /\ LET n == Next(v, name, [NewMemory EXCEPT !.mem = mem])
       IN /\ v' = n.v
          /\ mem' = n.st.mem
    /\ UNCHANGED <<vpc, schema, rawValue, Provider, Validations, panicked, adds, nest>>
    /\ UNCHANGED <<bvars, tvars, cvars, rvars, ovars, mvars, qvars>>

\* Validate(schema, rawValue, v)
RunValidate ==
    /\ vpc = "ready"
    /\ \E st \in {Validate(schema, rawValue, v, [NewMemory EXCEPT !.mem = mem])} :
          /\ Validations' = st.lists[1]
          /\ mem' = st.mem
          /\ panicked' = st.panicked
          /\ adds' = st.adds
          /\ nest' = st.maxNest
    /\ vpc' = "done"
    /\ UNCHANGED <<schema, rawValue, Provider, v>>
    /\ UNCHANGED <<bvars, tvars, cvars, rvars, ovars, mvars, qvars>>

NextValidate ==
    \/ \E name \in CursorNames : CursorNext(name)
    \/ RunValidate

SpecValidate == InitValidate /\ [][NextValidate]_vars


(***************************************************************************)
(* Properties of the validator                                             *)
(***************************************************************************)
\* a failure as the caller reads it: its path resolved through the memory
FailureView(m, f) == [Rule |-> f.Rule, Path |-> Elems(m, f.Path), Message |-> f.Message]
Failures == [i \in 1..Len(Validations) |-> FailureView(mem, Validations[i])]
CursorPath == Elems(mem, v.Path)
RuleOf(f) == f.Rule
Rules == [i \in 1..Len(Validations) |-> Validations[i].Rule]

\* the pass ran the structural walk on a value that is not null
NoHook(raw) == raw.kind # "nil" /\ raw.typ \notin (FullTypes \cup PostTypes)
Walked ==
    /\ vpc = "done"
    /\ NoHook(rawValue)
    /\ ResolveReference(schema) # NilSchema
    /\ ~Provider[concreteType(rawValue)].Skip
    /\ ~isNull(concrete(rawValue))

\* the failures a schema gives a value when validated on its own
FailuresAlone(s, raw) == Validate(s, raw, NewValidator, NewMemory).lists[1]
CleanBranches(bs, raw) == Cardinality({i \in 1..Len(bs) : FailuresAlone(bs[i], raw) = <<>>})

OnlyOneOf(s) == Len(s.OneOf) > 0 /\ s = OneOfSchema(s.OneOf)

\* C1: for a schema whose only constraint is a oneOf list, Validate appends
\* exactly one failure, with rule "oneOf", when the number of branches that
\* validate cleanly is 0 or at least 2, and no failure when it is exactly 1.
C1_OneOfExactlyOne ==
    (Walked /\ OnlyOneOf(schema) /\ rawValue.kind = "int") =>
        IF CleanBranches(schema.OneOf, rawValue) = 1
        THEN Validations = <<>>
        ELSE Rules = <<"oneOf">>

CompositeRules == <<"oneOf", "allOf", "anyOf", "not">>
HasComposite(s) == Len(s.OneOf) > 0 \/ Len(s.AllOf) > 0 \/ Len(s.AnyOf) > 0 \/ s.Not # <<>>
StripComposite(s) == [s EXCEPT !.OneOf = <<>>, !.AllOf = <<>>, !.AnyOf = <<>>, !.Not = <<>>]
RuleSet(s) ==
    {r \in {"oneOf", "allOf", "anyOf", "not"} :
        \/ r = "oneOf" /\ Len(s.OneOf) > 0
        \/ r = "allOf" /\ Len(s.AllOf) > 0
        \/ r = "anyOf" /\ Len(s.AnyOf) > 0
        \/ r = "not" /\ s.Not # <<>>}
RuleIndex(r) == CHOOSE i \in 1..4 : CompositeRules[i] = r
RuleAndMessage(fs) == [i \in 1..Len(fs) |-> [Rule |-> fs[i].Rule, Message |-> fs[i].Message]]

\* an embedded field is validated against the enclosing schema again, which
\* is a second evaluation of the same composite rules on another cursor
NoEmbedded(val) == val.kind = "struct" => \A i \in 1..Len(val.fields) : ~val.fields[i].Anonymous

NullFields(val) ==
    {i \in 1..Len(val.fields) :
        ~GetJSONOptions(val.fields[i]).skip /\ isNull(val.fields[i].value)}
RequiredFailuresFor(name) ==
    {i \in 1..Len(Validations) :
        Validations[i].Rule = "required" /\ Validations[i].Message.args = <<name>>}
ListsRequired(s, name) == \E i \in 1..Len(s.Required) : ToLower(s.Required[i]) = ToLower(name)
RequiredCase ==
    /\ Walked /\ ~panicked
    /\ concrete(rawValue).kind = "struct"
    /\ \E i \in NullFields(concrete(rawValue)) :
          ListsRequired(ResolveReference(schema), GetJSONOptions(concrete(rawValue).fields[i]).property)

\* C3 as stated: a null field X listed in required yields exactly one
\* failure, with rule "required" and the cursor's path extended by "X".
C3_RequiredPathExtended ==
    RequiredCase =>
        \A i \in NullFields(concrete(rawValue)) :
            LET name == GetJSONOptions(concrete(rawValue).fields[i]).property
            IN ListsRequired(ResolveReference(schema), name) =>
                  /\ Cardinality(RequiredFailuresFor(name)) = 1
                  /\ \A k \in RequiredFailuresFor(name) : Failures[k].Path = CursorPath \o <<name>>

\* C3 amended: when the object schema has a properties map, a null field X
\* listed in required yields exactly one failure for X, with rule
\* "required" and the path of the current cursor itself (not extended by
\* "X"); X is named in the message only.
C3_RequiredAtCursorPath ==
    (RequiredCase /\ ResolveReference(schema).HasProperties) =>
        \A i \in NullFields(concrete(rawValue)) :
            LET name == GetJSONOptions(concrete(rawValue).fields[i]).property
            IN ListsRequired(ResolveReference(schema), name) =>
                  /\ Cardinality(RequiredFailuresFor(name)) = 1
                  /\ \A k \in RequiredFailuresFor(name) : Failures[k].Path = CursorPath

C3_Witness ==
    /\ RequiredCase /\ ResolveReference(schema).HasProperties
    /\ v.Path.len > 0
    /\ \E k \in 1..Len(Validations) : Validations[k].Rule = "required" /\ Failures[k].Path = CursorPath

\* the value handed to Validate is null: an untyped nil or a nil pointer
NullRaw(raw) == raw.kind = "nil" \/ (raw.kind = "ptr" /\ raw.elem = <<>>)
NullCase ==
    /\ vpc = "done"
    /\ NullRaw(rawValue)
    /\ rawValue.kind = "ptr" => (NoHook(rawValue) /\ ~Provider[rawValue.typ].Skip)
    /\ ResolveReference(schema) # NilSchema

\* C4: for a null value Validate appends exactly one failure, with rule
\* "nullable", when the schema is neither nullable nor of type null, and
\* nothing otherwise; in both cases it returns normally and evaluates no
\* further rule.
C4_NullReturnsNormally ==
    NullCase =>
        /\ ~panicked
        /\ LET s == ResolveReference(schema)
           IN IF ~s.Nullable /\ s.Type # "null"
              THEN Rules = <<"nullable">>
              ELSE Validations = <<>>

\* C5: a "deprecated" failure is appended if and only if the schema is
\* deprecated, the value differs from its type's default, and the
\* fail-on-deprecated option is set for the value's type.
C5_DeprecatedOnlyWhenConfigured ==
    (Walked /\ ~panicked) =>
        ((\E i \in 1..Len(Validations) : Validations[i].Rule = "deprecated")
            <=> /\ ResolveReference(schema).Deprecated
                /\ ~isZero(concrete(rawValue))
                /\ Provider[concreteType(rawValue)].FailDeprecated)


\* C15: when the value implements the full hook, the failures of the pass
\* are exactly those the hook adds on the cursor, none of them carries the
\* rule of a structural check or of the post hook, and this is so whatever
\* the schema holds and whatever the options of the type say.
C15_FullHookOnly ==
    (vpc = "done" /\ rawValue.kind # "nil" /\ rawValue.typ \in FullTypes) =>
        LET st == FullValidate(rawValue, v, [NewMemory EXCEPT !.mem = mem])
        IN /\ panicked = st.panicked
           /\ Failures = [i \in 1..Len(st.lists[1]) |-> FailureView(st.mem, st.lists[1][i])]
           /\ \A i \in 1..Len(Failures) : Failures[i].Rule = ""

\* a value with the full hook was validated against a schema that holds
\* constraints, under options that skip its type, and the hook's failure is
\* in the list
C15_Witness ==
    /\ vpc = "done"
    /\ rawValue.kind # "nil" /\ rawValue.typ \in FullTypes
    /\ ~panicked
    /\ Provider[concreteType(rawValue)].Skip
    /\ ResolveReference(schema) \notin {NilSchema, NewSchema}
    /\ Len(Failures) = 1

\* the failures of a rule, as the caller reads them
FailuresOf(rule) == SelectSeq(Failures, LAMBDA f : f.Rule = rule)

\* C16: for an array validated against a schema with uniqueItems, there is
\* no "uniqueItems" failure when all items have distinct string forms, and
\* otherwise exactly one, at the cursor's path, naming the item of lowest
\* index that equals an earlier item, however many items repeat.
C16_UniqueItemsOnce ==
    (Walked /\ ~panicked /\ concrete(rawValue).kind = "slice" /\ ResolveReference(schema).UniqueItems) =>
        LET items == concrete(rawValue).items
            repeats == {i \in 1..Len(items) : \E j \in 1..(i - 1) : toString(items[j]) = toString(items[i])}
        IN IF repeats = {} THEN FailuresOf("uniqueItems") = <<>>
           ELSE /\ Len(FailuresOf("uniqueItems")) = 1
                /\ FailuresOf("uniqueItems")[1].Path = CursorPath
                /\ \E i \in repeats :
                      /\ \A k \in repeats : i <= k
                      /\ FailuresOf("uniqueItems")[1].Message.args = <<toString(items[i])>>

\* an array with two repeating items was validated and has its one failure
C16_Witness ==
    /\ Walked /\ ~panicked
    /\ ResolveReference(schema).UniqueItems
    /\ concrete(rawValue).kind = "slice"
    /\ Cardinality({i \in 1..Len(concrete(rawValue).items) :
                       \E j \in 1..(i - 1) : toString(concrete(rawValue).items[j])
                                                 = toString(concrete(rawValue).items[i])}) = 2
    /\ Len(FailuresOf("uniqueItems")) = 1

\* the Add calls made through the cursors that descend from the root cursor
\* by Next calls only
ChainAdds == SelectSeq(adds, LAMBDA a : a.chain)

\* C21: the root's failure list is, in order, the failures added through
\* the cursors obtained from the root cursor by Next calls: each is behind
\* all those added before it and none is missing or moved; and a failure
\* added without a path of its own got the path its cursor had then.
C21_SharedAppendOnly ==
    (vpc = "done" /\ ~panicked) =>
        /\ Len(Validations) = Len(ChainAdds)
        /\ \A i \in 1..Len(ChainAdds) :
              /\ Validations[i].Rule = ChainAdds[i].Rule
              /\ Validations[i].Message = ChainAdds[i].Message
              /\ Validations[i].Path.len = Len(ChainAdds[i].Path)
              /\ ~ChainAdds[i].explicit => ChainAdds[i].Path = ChainAdds[i].Cursor

\* a pass added a failure through the cursor it was given and then one
\* through a child cursor
C21_Witness ==
    /\ vpc = "done" /\ ~panicked
    /\ Len(Validations) >= 2
    /\ \E i, j \in 1..Len(ChainAdds) :
          /\ i < j
          /\ Len(ChainAdds[i].Cursor) = v.Path.len
          /\ Len(ChainAdds[j].Cursor) > v.Path.len

\* the sum of f over the finite set S
RECURSIVE Sum(_, _)
Sum(f, S) ==
    IF S = {} THEN 0
    ELSE LET x == CHOOSE x \in S : TRUE IN f[x] + Sum(f, S \ {x})

\* the branches of composite rules in the schema graph declared by s, each
\* registered schema counted once (seen: the registered names counted)
RECURSIVE CountBranches(_, _)
CountBranches(s, seen) ==
    LET InSeq(q) == Sum([i \in 1..Len(q) |-> CountBranches(q[i], seen)], 1..Len(q))
    IN Len(s.OneOf) + Len(s.AllOf) + Len(s.AnyOf) + Len(s.Not)
       + InSeq(s.OneOf) + InSeq(s.AllOf) + InSeq(s.AnyOf) + InSeq(s.Not)
       + InSeq(s.Items) + InSeq(s.AdditionalProperties)
       + Sum([k \in DOMAIN s.Properties |-> CountBranches(s.Properties[k], seen)],
             DOMAIN s.Properties)
       + (IF s.Reference = <<>> \/ s.Reference[1].resolved = <<>> THEN 0
          ELSE LET t == s.Reference[1].resolved[1]
               IN IF "registered" \in DOMAIN t
                  THEN IF t.registered \in seen THEN 0
                       ELSE CountBranches(Registered(t.registered), seen \cup {t.registered})
                  ELSE CountBranches(t, seen))
DeclaredBranches(s) == CountBranches(s, {name \in {NodeName} : s = Registered(name)})

\* C24: the pass has run to its end, and the Validate calls that composite
\* rules made on their branches were never nested deeper than the schema
\* graph has branches, whatever the value.
C24_DepthBoundedBySchema ==
    (vpc = "done") => nest <= DeclaredBranches(schema)

\* C25: every failure of the list reads, when the pass is over, with the
\* path it had when it was added.
C25_PathsStable ==
    (vpc = "done" /\ ~panicked) =>
        \A i \in 1..Len(Validations) :
            i <= Len(ChainAdds) => Failures[i].Path = ChainAdds[i].Path


(***************************************************************************)
(* The schema builder (package api).  A reflect.Type is a type name whose  *)
(* description is read from the tables below.  *Schema pointers are        *)
(* indices into build.nodes (0 is nil); a Schema stored by value (a        *)
(* property, a oneOf/allOf branch, a components entry) is a record.  The   *)
(* *Reference a promoted node carries in named is shared by every          *)
(* reference to it, so it is keyed by the node's type: build.refs[typ] is  *)
(* its Ref.                                                                *)
(***************************************************************************)
MaxBuildCalls == 12     \* BuildSchema calls one GetSchema call may make
MaxCalls == 2           \* GetSchema calls made on the builder
MaxBuilds == 2          \* Build calls made on the builder

BuilderTypes == {"int", "*int", "[]int", "A", "*A", "[]A", "map[string]A", "q.A", "N"}
\* the types with embedded fields, and the type they embed
EmbeddingTypes == {"V", "L", "R"}

\* reflect.Type.Kind
Kind(typ) ==
    CASE typ = "int" -> "int"
      [] typ \in {"*int", "*A", "*V"} -> "ptr"
      [] typ \in {"[]int", "[]A"} -> "slice"
      [] typ = "map[string]A" -> "map"
      [] typ \in {"A", "q.A", "V", "L", "R"} -> "struct"
      [] typ = "N" -> "string"

\* reflect.Type.Elem
Elem(typ) ==
    CASE typ \in {"*int", "[]int"} -> "int"
      [] typ \in {"*A", "[]A", "map[string]A"} -> "A"
      [] typ = "*V" -> "V"

\* reflect.Type.Name and reflect.Type.PkgPath
TypeName(typ) ==
    CASE typ \in {"A", "q.A"} -> <<"A">>
      [] typ = "N" -> <<"N">>
      [] typ \in {"V", "L", "R"} -> <<typ>>
      [] typ = "int" -> <<"i","n","t">>
      [] OTHER -> <<>>
PkgPath(typ) ==
    CASE typ \in {"A", "V", "L", "R"} -> <<"x","/","p">>
      [] typ = "q.A" -> <<"x",".","y","/","q">>
      [] typ = "N" -> <<"x","/","q">>
      [] OTHER -> <<>>

\* the types that implement HasTypeName, and what APITypeName returns: N
\* names itself as q.A is named when qualified
APITypeName == [typ \in {"N"} |-> <<"X","Y","Q","A">>]

\* IsNamedType
IsNamedType(typ) == typ \in DOMAIN APITypeName

\* GetName: the custom name of a type that has one, else its declared name
GetName(typ) == IF IsNamedType(typ) THEN APITypeName[typ] ELSE TypeName(typ)

ToUpperChar(c) ==
    IF \E i \in 1..26 : LowerChars[i] = c
    THEN UpperChars[CHOOSE i \in 1..26 : LowerChars[i] = c]
    ELSE c

\* pkgReplace: every path segment loses its leading separator and gets a
\* capital first letter
RECURSIVE pkgPrefix(_, _)
pkgPrefix(pkg, segmentStart) ==
    IF pkg = <<>> THEN <<>>
    ELSE IF Head(pkg) \in {".", "/"} THEN pkgPrefix(Tail(pkg), TRUE)
    ELSE <<IF segmentStart THEN ToUpperChar(Head(pkg)) ELSE Head(pkg)>>
            \o pkgPrefix(Tail(pkg), FALSE)

\* GetNameQualified
GetNameQualified(typ) ==
    IF PkgPath(typ) = <<>> THEN GetName(typ)
    ELSE pkgPrefix(PkgPath(typ), TRUE) \o GetName(typ)

\* struct field tags: json and api as the lists of their comma separated
\* options
OmitEmpty == <<"o","m","i","t","e","m","p","t","y">>
JsonTag(name, omitempty) == IF omitempty THEN <<name, OmitEmpty>> ELSE <<name>>
TypeField(name, json, api, typ) ==
    [Name |-> name, Json |-> json, Exported |-> TRUE, Anonymous |-> FALSE,
     Api |-> api, Type |-> typ]
\* an embedded field: it is named after its type and carries no tag
EmbeddedField(name, typ) ==
    [Name |-> name, Json |-> NoTag, Exported |-> TRUE, Anonymous |-> TRUE,
     Api |-> <<>>, Type |-> typ]

\* reflect.Type.Field: A refers to itself through a pointer, a slice and a
\* map; q.A has the declared name of A; L embeds V by value and R embeds
\* it by pointer, as MessageList embeds Embedded and *EmbeddedPointer
Fields(typ) ==
    CASE typ = "A" ->
            <<TypeField(<<"C","h","i","l","d">>, JsonTag(<<"c">>, tags.omitempty), tags.api, "*A"),
              TypeField(<<"K","i","d","s">>, NoTag, <<>>, "[]A"),
              TypeField(<<"N">>, JsonTag(<<>>, tags.omitempty), tags.api, "*int"),
              TypeField(<<"M">>, NoTag, <<>>, "map[string]A")>>
      [] typ = "q.A" ->
            <<TypeField(<<"I","d">>, NoTag, tags.api, "N"),
              TypeField(<<"P">>, NoTag, <<>>, "*A"),
              TypeField(<<"H">>, <<<<"-">>>>, <<>>, "int")>>
      [] typ = "V" ->
            <<TypeField(<<"Z">>, JsonTag(<<"z">>, FALSE), <<>>, "int"),
              TypeField(<<"W">>, JsonTag(<<"w">>, TRUE), <<>>, "int")>>
      [] typ = "L" ->
            <<EmbeddedField(<<"V">>, "V"),
              TypeField(<<"O","w","n">>, JsonTag(<<"o","w","n">>, tags.omitempty), <<>>, "int")>>
      [] typ = "R" ->
            <<EmbeddedField(<<"V">>, "*V"),
              TypeField(<<"O","w","n">>, JsonTag(<<"o","w","n">>, tags.omitempty), <<>>, "int")>>
      [] OTHER -> <<>>

\* &Schema{}
EmptySchema ==
    [Reference |-> "", named |-> FALSE, typ |-> "", Type |-> "", Nullable |-> FALSE,
     Deprecated |-> FALSE, Items |-> 0, AdditionalProperties |-> 0,
     HasProperties |-> FALSE, Properties |-> [name \in {} |-> 0], Required |-> <<>>,
     OneOf |-> <<>>, AllOf |-> <<>>, Minimum |-> <<>>, ExclusiveMaximum |-> FALSE,
     Title |-> <<>>, Format |-> <<>>, Enum |-> <<>>]
NullSchema == [EmptySchema EXCEPT !.Type = "null"]
\* SchemaForBool(false)
AdditionalFalse == -1

\* Schema.AsReference: a promoted schema is replaced by a reference to it
AsReference(s) == IF s.named THEN [EmptySchema EXCEPT !.Reference = s.typ] ELSE s

\* MergeValue: next unless it is empty
MergeValue(base, next, empty) == IF next = empty THEN base ELSE next

KeyDeprecated == <<"d","e","p","r","e","c","a","t","e","d">>
KeyRequired == <<"r","e","q","u","i","r","e","d">>
KeyNullable == <<"n","u","l","l","a","b","l","e">>
KeyNull == <<"n","u","l","l">>

KeyMinimum == <<"m","i","n","i","m","u","m">>
KeyMin == <<"m","i","n">>
KeyExclusiveMaximum == <<"e","x","c","l","u","s","i","v","e","m","a","x","i","m","u","m">>
KeyExclusiveMax == <<"e","x","c","l","u","s","i","v","e","m","a","x">>

KeyTitle == <<"t","i","t","l","e">>
KeyFormat == <<"f","o","r","m","a","t">>
KeyEnum == <<"e","n","u","m">>

\* the byte splitWithEscape puts in the place of an escaped delimiter
NUL == "0x00"

\* strings.ReplaceAll(s, escape+delim, "\x00"), from left to right
RECURSIVE ReplaceEscaped(_, _, _)
ReplaceEscaped(s, delim, escape) ==
    IF s = <<>> THEN <<>>
    ELSE IF Len(s) >= 2 /\ s[1] = escape /\ s[2] = delim
    THEN <<NUL>> \o ReplaceEscaped(SubSeq(s, 3, Len(s)), delim, escape)
    ELSE <<Head(s)>> \o ReplaceEscaped(Tail(s), delim, escape)

\* strings.Split(s, delim)
RECURSIVE SplitBy(_, _, _)
SplitBy(rest, piece, delim) ==
    IF rest = <<>> THEN <<piece>>
    ELSE IF Head(rest) = delim THEN <<piece>> \o SplitBy(Tail(rest), <<>>, delim)
    ELSE SplitBy(Tail(rest), Append(piece, Head(rest)), delim)

\* strings.ReplaceAll(token, "\x00", delim)
Restored(token, delim) == [i \in 1..Len(token) |-> IF token[i] = NUL THEN delim ELSE token[i]]

\* splitWithEscape
splitWithEscape(s, delim, escape) ==
    LET tokens == SplitBy(ReplaceEscaped(s, delim, escape), <<>>, delim)
    IN [i \in 1..Len(tokens) |-> Restored(tokens[i], delim)]

\* the enum constants of a value, the empty ones left out
EnumConstants(value) == SelectSeq(splitWithEscape(value, "|", "\\"), LAMBDA c : c # <<>>)

\* strings.SplitN(optionRaw, "=", 2): the key, and the value that defaults
\* to the key when the option has no "="
RECURSIVE KeyOf(_)
KeyOf(option) ==
    IF option = <<>> \/ Head(option) = "=" THEN <<>>
    ELSE <<Head(option)>> \o KeyOf(Tail(option))
ValueOf(option) ==
    IF Len(KeyOf(option)) = Len(option) THEN KeyOf(option)
    ELSE SubSeq(option, Len(KeyOf(option)) + 2, Len(option))

\* the body of the loop of ApplyOptions, for the keys that set the fields
\* modelled here (the keys setting titles, formats and the other bounds are
\* handled as these are; a nil Enum and an empty one are both <<>>).  The
\* tags used carry no spaces, so TrimSpace leaves the key as it is.  panicked: the option ended in panic(...).
ApplyOption(s, option) ==
    LET key == KeyOf(option)
        value == ValueOf(option)
        k == ToLower(key)
    IN CASE k = KeyTitle -> [s |-> [s EXCEPT !.Title = value], panicked |-> FALSE]
         [] k = KeyFormat -> [s |-> [s EXCEPT !.Format = value], panicked |-> FALSE]
         [] k = KeyEnum -> [s |-> [s EXCEPT !.Enum = EnumConstants(value)], panicked |-> FALSE]
         [] k = KeyDeprecated -> [s |-> [s EXCEPT !.Deprecated = TRUE], panicked |-> FALSE]
         [] k = KeyRequired -> [s |-> [s EXCEPT !.Nullable = FALSE], panicked |-> FALSE]
         [] k \in {KeyNullable, KeyNull} -> [s |-> [s EXCEPT !.Nullable = TRUE], panicked |-> FALSE]
         [] k \in {KeyMinimum, KeyMin} ->
                LET parsed == Atoi(value)
                IN IF parsed.err
                   THEN [s |-> [s EXCEPT !.Minimum = <<0>>], panicked |-> TRUE]
                   ELSE [s |-> [s EXCEPT !.Minimum = <<parsed.i>>], panicked |-> FALSE]
         [] k \in {KeyExclusiveMaximum, KeyExclusiveMax} ->
                LET parsed == ParseBool(IF value = key THEN <<"t","r","u","e">> ELSE value)
                IN IF parsed.err
                   THEN [s |-> s, panicked |-> TRUE]
                   ELSE [s |-> [s EXCEPT !.ExclusiveMaximum = parsed.b], panicked |-> FALSE]
         [] OTHER -> [s |-> s, panicked |-> FALSE]

\* ApplyOptions: the options of the tag in turn, up to the one that panics
RECURSIVE ApplyOptions(_, _)
ApplyOptions(s, tag) ==
    IF tag = <<>> THEN [s |-> s, panicked |-> FALSE]
    ELSE LET r == ApplyOption(s, Head(tag))
         IN IF r.panicked THEN r ELSE ApplyOptions(r.s, Tail(tag))

\* ApplyOptions called with the tag as the struct field carries it
ApplyTag(s, tag) == ApplyOptions(s, splitWithEscape(tag, ",", "\\"))

\* Builder.IsNullable
IsNullable(s) == s.Nullable \/ (Len(s.OneOf) = 2 /\ s.OneOf[2].Type = "null")


\* NewBuilder, with the flags and the base document set by the caller
NewBuilder(nullableIsOptional, optionalIsNullable, document) ==
    [NullableIsOptional |-> nullableIsOptional,
     OptionalIsNullable |-> optionalIsNullable,
     Document |-> document,
     Collisions |-> [typ \in {} |-> 0],
     schemas |-> [typ \in {} |-> 0],
     nodes |-> <<>>,
     refs |-> [typ \in BuilderTypes \cup EmbeddingTypes |-> <<>>],
     calls |-> 0,
     overflow |-> FALSE,
     panicked |-> FALSE,
     expansions |-> [typ \in BuilderTypes \cup EmbeddingTypes |-> 0]]

\* a new Schema on the heap
Allocate(b, s) == [b |-> [b EXCEPT !.nodes = Append(@, s)], id |-> Len(b.nodes) + 1]

\* a lookup that never finds the type
IsCachedNever(b, typ) == FALSE

\* the lookup build.schemas[typ] of GetSchema
IsCached(b, typ) == typ \in DOMAIN b.schemas

\* Builder.setSchema
setSchema(b, typ, id) ==
    [b EXCEPT !.nodes[id].named = TRUE,
              !.nodes[id].typ = typ,
              !.schemas = [x \in DOMAIN @ \cup {typ} |-> IF x = typ THEN id ELSE @[x]]]

\* a builder that promotes nothing
ShouldPromoteNever(isDefined, addToDocument) == FALSE

\* the promotion test of BuildSchema
ShouldPromote(isDefined, addToDocument) == isDefined /\ addToDocument

\* getConcrete
RECURSIVE getConcrete(_)
getConcrete(typ) == IF Kind(typ) = "ptr" THEN getConcrete(Elem(typ)) ELSE typ

\* Builder.makeNullable
makeNullable(b, typ, id) ==
    LET s == b.nodes[id]
    IN IF s.named
       THEN Allocate(b, [EmptySchema EXCEPT !.OneOf = <<AsReference(s), NullSchema>>])
       ELSE IF Len(s.AllOf) = 1
       THEN [b  |-> [b EXCEPT !.nodes[id].OneOf = <<s.AllOf[1], NullSchema>>,
                              !.nodes[id].AllOf = <<>>],
             id |-> id]
       ELSE [b |-> [b EXCEPT !.nodes[id].Nullable = TRUE], id |-> id]

\* objectSchema.Properties[property] = s, and the append to Required
SetProperty(b, id, property, s, optional) ==
    [b EXCEPT !.nodes[id].Properties =
                  [x \in DOMAIN @ \cup {property} |-> IF x = property THEN s ELSE @[x]],
              !.nodes[id].Required = IF optional THEN @ ELSE Append(@, property)]

RECURSIVE BuildSchema(_, _, _)
RECURSIVE addProperties(_, _, _, _, _)

\* reflect.Type.NumField panics on a type whose kind is not Struct
NumFieldPanics(typ) == Kind(typ) # "struct"

\* Builder.GetSchema
GetSchema(b, typ) ==
    IF IsCached(b, typ) THEN [b |-> b, id |-> b.schemas[typ]]
    ELSE BuildSchema(b, typ, TRUE)

\* the slice and map cases of the kind switch, once GetSchema has returned
\* e for the element type: the type is set before that call, the items
\* after it, and so not when it panicked
SetItems(e, s) ==
    IF e.b.panicked THEN [e.b EXCEPT !.nodes[s].Type = MergeValue(@, "array", "")]
    ELSE [e.b EXCEPT !.nodes[s].Type = MergeValue(@, "array", ""),
                     !.nodes[s].Items = MergeValue(@, e.id, 0)]
SetAdditionalProperties(e, s) ==
    IF e.b.panicked THEN [e.b EXCEPT !.nodes[s].Type = MergeValue(@, "object", "")]
    ELSE [e.b EXCEPT !.nodes[s].Type = MergeValue(@, "object", ""),
                     !.nodes[s].AdditionalProperties = MergeValue(@, e.id, 0)]

\* the return of BuildSchema: nothing when the build below panicked
Returned(b, id) == [b |-> b, id |-> IF b.panicked THEN 0 ELSE id]

\* the pointer case of BuildSchema, once the schema c of the concrete type
\* is there
NullableOf(c, typ) ==
    IF c.id = 0 \/ c.b.panicked THEN [b |-> c.b, id |-> 0]
    ELSE makeNullable(c.b, typ, c.id)

\* the kind switch of BuildSchema, on the node s already allocated
BuildKind(b, typ, s) ==
    CASE Kind(typ) \in {"slice"} ->
            SetItems(GetSchema(b, Elem(typ)), s)
      [] Kind(typ) = "map" ->
            SetAdditionalProperties(GetSchema(b, Elem(typ)), s)
      [] Kind(typ) = "string" -> [b EXCEPT !.nodes[s].Type = MergeValue(@, "string", "")]
      [] Kind(typ) = "int" -> [b EXCEPT !.nodes[s].Type = MergeValue(@, "integer", "")]
      [] Kind(typ) = "struct" ->
            LET b1 == [b EXCEPT !.nodes[s].Type = MergeValue(@, "object", "")]
            IN IF b1.nodes[s].HasProperties THEN b1
               ELSE addProperties(
                       [b1 EXCEPT !.nodes[s].HasProperties = TRUE,
                                  !.nodes[s].AdditionalProperties = AdditionalFalse,
                                  !.expansions[typ] = @ + 1],
                       s, FALSE, typ, 1)

\* Builder.BuildSchema.  The call is abandoned, and overflow raised, once
\* MaxBuildCalls calls have been made.  A panic below unwinds the call: it
\* returns nothing (id 0) and leaves the builder as the panic found it.
BuildSchema(b, typ, addToDocument) ==
    IF b.calls >= MaxBuildCalls THEN [b |-> [b EXCEPT !.overflow = TRUE], id |-> 0]
    ELSE LET b0 == [b EXCEPT !.calls = @ + 1]
         IN IF getConcrete(typ) # typ
            THEN NullableOf(GetSchema(b0, getConcrete(typ)), getConcrete(typ))
            ELSE LET a == Allocate(b0, EmptySchema)
                     isDefined == Kind(typ) = "struct" \/ IsNamedType(typ)
                     b1 == IF ShouldPromote(isDefined, addToDocument)
                           THEN setSchema(a.b, typ, a.id) ELSE a.b
                 IN Returned(BuildKind(b1, typ, a.id), a.id)

\* the steps of addProperties on the property schema of one field: made
\* nullable, wrapped in allOf when it is named and the field has an api
\* tag, and with the options of the tag applied
Nullabled(g, field, nullable) ==
    IF nullable /\ ~IsNullable(g.b.nodes[g.id]) THEN makeNullable(g.b, field.Type, g.id) ELSE g
Wrapped(m, field) ==
    IF field.Api # <<>> /\ m.b.nodes[m.id].named
    THEN Allocate(m.b, [EmptySchema EXCEPT !.AllOf = <<AsReference(m.b.nodes[m.id])>>])
    ELSE m
Applied(w, field) ==
    LET applied == IF field.Api # <<>> THEN ApplyOptions(w.b.nodes[w.id], field.Api)
                   ELSE [s |-> w.b.nodes[w.id], panicked |-> FALSE]
    IN [b |-> [w.b EXCEPT !.nodes[w.id] = applied.s, !.panicked = applied.panicked], id |-> w.id]

\* the end of the loop body of addProperties: the property schema o is
\* stored, the field is appended to Required, and the loop goes on
setField(o, objectSchema, property, optional, parentOptional, typ, i) ==
    IF o.b.panicked THEN o.b
    ELSE addProperties(
            SetProperty(o.b, objectSchema, property, AsReference(o.b.nodes[o.id]), optional),
            objectSchema, parentOptional, typ, i + 1)

\* the loop body of addProperties for a field that is not embedded, once
\* GetSchema has returned g for its type
addField(g, objectSchema, parentOptional, typ, i) ==
    IF g.b.panicked THEN g.b
    ELSE IF g.id = 0 THEN addProperties(g.b, objectSchema, parentOptional, typ, i + 1)
    ELSE LET field == Fields(typ)[i]
             json == GetJSONOptions(field)
             optional0 == json.optional \/ parentOptional
             nullable == g.b.nodes[g.id].Nullable \/ (optional0 /\ g.b.OptionalIsNullable)
             optional == optional0 \/ (nullable /\ g.b.NullableIsOptional)
         IN setField(Applied(Wrapped(Nullabled(g, field, nullable), field), field),
                     objectSchema, json.property, optional, parentOptional, typ, i)

\* Builder.addProperties, from field i on.  typ.NumField() panics when typ
\* is not a struct type, and so does ApplyOptions on a value it cannot parse.
addProperties(b, objectSchema, parentOptional, typ, i) ==
    IF b.panicked THEN b
    ELSE IF NumFieldPanics(typ) THEN [b EXCEPT !.panicked = TRUE]
    ELSE IF i > Len(Fields(typ)) THEN b
    ELSE LET field == Fields(typ)[i]
             json == GetJSONOptions(field)
             optional0 == json.optional \/ parentOptional
         IN IF json.skip THEN addProperties(b, objectSchema, parentOptional, typ, i + 1)
            ELSE IF field.Anonymous
            THEN addProperties(addProperties(b, objectSchema, optional0, field.Type, 1),
                               objectSchema, parentOptional, typ, i + 1)
            ELSE addField(GetSchema(b, field.Type), objectSchema, parentOptional, typ, i)


\* EscapePathPart
RECURSIVE EscapePathPart(_)
EscapePathPart(s) ==
    IF s = <<>> THEN <<>>
    ELSE (CASE Head(s) = "~" -> <<"~", "0">>
            [] Head(s) = "/" -> <<"~", "1">>
            [] OTHER -> <<Head(s)>>) \o EscapePathPart(Tail(s))

\* RefTo, for a schema: the reference prefix of schemas and the escaped name
RefTo(name) == [prefix |-> "#/components/schemas/", name |-> EscapePathPart(name)]

\* a lookup that finds no name taken
ExistsNever(schemas, name) == FALSE

\* the lookups doc.Components.Schemas[name] of setDocumentSchema
Exists(schemas, name) == name \in DOMAIN schemas

\* Builder.setDocumentSchema, on the schemas map of the document
setDocumentSchema(b, schemas, typ) ==
    LET s == b.nodes[b.schemas[typ]]
        name == IF Exists(schemas, GetName(typ)) THEN GetNameQualified(typ) ELSE GetName(typ)
        b1 == [b EXCEPT !.refs[typ] = RefTo(name)]
    IN IF Exists(schemas, name)
       THEN [b |-> [b1 EXCEPT !.Collisions =
                       [x \in DOMAIN @ \cup {typ} |-> IF x = typ THEN b.schemas[typ] ELSE @[x]]],
             schemas |-> schemas]
       ELSE [b |-> b1,
             schemas |-> [x \in DOMAIN schemas \cup {name} |-> IF x = name THEN s ELSE schemas[x]]]

\* the loop of Build over build.schemas, in the order the map yields them
RECURSIVE setDocumentSchemas(_, _, _)
setDocumentSchemas(b, schemas, order) ==
    IF order = <<>> THEN [b |-> b, schemas |-> schemas]
    ELSE LET r == setDocumentSchema(b, schemas, Head(order))
         IN setDocumentSchemas(r.b, r.schemas, Tail(order))

\* Builder.Build, as far as components.schemas goes.  The document is a
\* copy of build.Document that shares its Components when there is one.
Build(b, order) ==
    LET b0 == [b EXCEPT !.Collisions = [typ \in {} |-> 0]]
        r == setDocumentSchemas(b0, b.Document.Schemas, order)
    IN [b |-> IF b.Document.Components
              THEN [r.b EXCEPT !.Document.Schemas = r.schemas] ELSE r.b,
        doc |-> [Schemas |-> r.schemas]]

\* the orders in which a range over a map with these keys can yield them
Orders(keys) ==
    {order \in [1..Cardinality(keys) -> keys] :
        \A i, j \in 1..Cardinality(keys) : i # j => order[i] # order[j]}

(***************************************************************************)
(* The builder in use: a builder is configured, then GetSchema and Build   *)
(* are called on it in any order.                                          *)
(***************************************************************************)
UserSchema == [EmptySchema EXCEPT !.Type = "string"]
NoSchemas == [name \in {} |-> 0]
BaseDocuments ==
    {[Components |-> FALSE, Schemas |-> NoSchemas],
     [Components |-> TRUE, Schemas |-> NoSchemas],
     [Components |-> TRUE, Schemas |-> (<<"A">> :> UserSchema)],
     [Components |-> TRUE, Schemas |-> (<<"A">> :> UserSchema) @@ (<<"X","Y","Q","A">> :> UserSchema)]}
ApiTags ==
    {<<>>, <<KeyNullable>>, <<<<"N","u","l","l">>>>, <<KeyRequired>>, <<KeyDeprecated>>,
     <<KeyRequired, KeyNullable>>,
     <<KeyMin \o <<"=","7">> >>, <<KeyMin \o <<"=","a","b","c">> >>,
     <<KeyExclusiveMax>>, <<KeyDeprecated, KeyExclusiveMax \o <<"=","m","a","y","b","e">> >>}

ValidatorIdle ==
    /\ vpc = "idle" /\ schema = <<>> /\ rawValue = <<>> /\ Provider = <<>>
    /\ v = <<>> /\ Validations = <<>> /\ mem = <<>> /\ panicked = FALSE /\ adds = <<>> /\ nest = 0

InitBuild ==
    /\ \E nullableIsOptional, optionalIsNullable \in BOOLEAN : \E document \in BaseDocuments :
          build = NewBuilder(nullableIsOptional, optionalIsNullable, document)
    /\ tags \in [omitempty : BOOLEAN, api : ApiTags]
    /\ doc = [builds |-> 0, calls |-> 0, before |-> NoSchemas, order |-> <<>>,
             Schemas |-> NoSchemas]
    /\ call = [n |-> 0, typ |-> "", id |-> 0, prev |-> 0, before |-> <<>>,
               first |-> [typ \in BuilderTypes \cup EmbeddingTypes |-> 0]]
    /\ ValidatorIdle
    /\ TreeIdle
    /\ TypesIdle
    /\ RunIdle
    /\ OptionsIdle
    /\ MergeIdle
    /\ QueryIdle

\* build.GetSchema(typ)
CallGetSchema(typ) ==
    /\ call.n < MaxCalls
    /\ \E r \in {GetSchema([build EXCEPT !.calls = 0, !.panicked = FALSE], typ)} :
          /\ build' = r.b
          /\ call' = [n |-> call.n + 1, typ |-> typ, id |-> r.id,
                      prev |-> call.first[typ], before |-> build.nodes,
                      first |-> [call.first EXCEPT ![typ] = IF @ = 0 THEN r.id ELSE @]]
    /\ UNCHANGED <<tags, doc>>
    /\ UNCHANGED <<vvars, tvars, cvars, rvars, ovars, mvars, qvars>>

\* build.Build()
CallBuild(order) ==
    /\ doc.builds < MaxBuilds
    /\ \E r \in {Build(build, order)} :
          /\ build' = r.b
          /\ doc' = [builds |-> doc.builds + 1, calls |-> call.n,
                     before |-> build.Document.Schemas,
                     order |-> order, Schemas |-> r.doc.Schemas]
    /\ UNCHANGED <<tags, call>>
    /\ UNCHANGED <<vvars, tvars, cvars, rvars, ovars, mvars, qvars>>

NextBuild ==
    \/ \E typ \in BuilderTypes : CallGetSchema(typ)
    \/ \E order \in Orders(DOMAIN build.schemas) : CallBuild(order)

SpecBuild == InitBuild /\ [][NextBuild]_vars

\* the builder used on the types with embedded fields
InitEmbed ==
    /\ InitBuild
    /\ tags.api = <<>>

NextEmbed ==
    \/ \E typ \in EmbeddingTypes : CallGetSchema(typ)
    \/ \E order \in Orders(DOMAIN build.schemas) : CallBuild(order)

SpecEmbed == InitEmbed /\ [][NextEmbed]_vars


(***************************************************************************)
(* Properties of the builder                                               *)
(***************************************************************************)
\* the types the builder promotes: structs and types with a custom name
Promoted(typ) == Kind(typ) = "struct" \/ IsNamedType(typ)

RECURSIVE Content(_, _)
Content(nodes, id) ==
    IF id <= 0 THEN <<id>>
    ELSE IF nodes[id].named THEN <<nodes[id].typ>>
    ELSE <<[nodes[id] EXCEPT !.Items = Content(nodes, @),
                             !.AdditionalProperties = Content(nodes, @)]>>

AbortingOptions(tag) ==
    {i \in 1..Len(tag) :
        \/ ToLower(KeyOf(tag[i])) \in {KeyMinimum, KeyMin} /\ Atoi(ValueOf(tag[i])).err
        \/ /\ ToLower(KeyOf(tag[i])) \in {KeyExclusiveMaximum, KeyExclusiveMax}
           /\ ValueOf(tag[i]) # KeyOf(tag[i])
           /\ ParseBool(ValueOf(tag[i])).err}

\* a schema stored by value and every schema stored by value inside it
RECURSIVE SubSchemas(_)
SubSchemas(s) ==
    {s} \cup UNION {SubSchemas(s.Properties[name]) : name \in DOMAIN s.Properties}
        \cup UNION {SubSchemas(s.OneOf[i]) : i \in 1..Len(s.OneOf)}
        \cup UNION {SubSchemas(s.AllOf[i]) : i \in 1..Len(s.AllOf)}
ReferenceTo(typ) == [EmptySchema EXCEPT !.Reference = typ]
ReachesA == {"A", "*A", "[]A", "map[string]A", "q.A"}

IsWrapper(s) == Len(s.OneOf) = 2 /\ s.OneOf[1].Reference # "" /\ s.OneOf[2].Type = "null"

\* C8: under every combination of flags, omitempty markers and api
\* annotations, the property of type pointer-to-A is oneOf(reference, null),
\* the property of type pointer-to-int carries the inline nullable flag, and
\* no schema carries both the flag and the wrapper.
C8_NullableCombinator ==
    ("A" \in DOMAIN build.schemas /\ ~build.overflow) =>
        LET a == build.nodes[build.schemas["A"]]
        IN /\ IsWrapper(a.Properties[<<"c">>])
           /\ a.Properties[<<"N">>].Nullable /\ ~IsWrapper(a.Properties[<<"N">>])
           /\ \A id \in 1..Len(build.nodes) : \A s \in SubSchemas(build.nodes[id]) :
                 ~(s.Nullable /\ IsWrapper(s))

RegisteredAs(typ, name) ==
    /\ name \notin DOMAIN doc.before
    /\ name \in DOMAIN doc.Schemas
    /\ doc.Schemas[name] = build.nodes[build.schemas[typ]]

\* C9: after Build, every entry the document had before is unchanged, and
\* every type of the cache is either registered under its plain name, or,
\* its plain name being taken, under its qualified name, or, both being
\* taken, recorded in Collisions and registered under neither; no other
\* name was added.
C9_NeverOverwrites ==
    (doc.builds > 0) =>
        /\ \A name \in DOMAIN doc.before :
              name \in DOMAIN doc.Schemas /\ doc.Schemas[name] = doc.before[name]
        /\ \A i \in 1..Len(doc.order) :
              LET typ == doc.order[i]
                  plain == GetName(typ)
                  qualified == GetNameQualified(typ)
              IN \/ RegisteredAs(typ, plain) /\ typ \notin DOMAIN build.Collisions
                 \/ /\ plain # qualified /\ plain \in DOMAIN doc.Schemas
                    /\ ~RegisteredAs(typ, plain) /\ RegisteredAs(typ, qualified)
                    /\ typ \notin DOMAIN build.Collisions
                 \/ /\ plain \in DOMAIN doc.Schemas /\ qualified \in DOMAIN doc.Schemas
                    /\ ~RegisteredAs(typ, plain) /\ ~RegisteredAs(typ, qualified)
                    /\ typ \in DOMAIN build.Collisions
        /\ DOMAIN doc.Schemas \subseteq
              DOMAIN doc.before \cup {GetName(doc.order[i]) : i \in 1..Len(doc.order)}
                                \cup {GetNameQualified(doc.order[i]) : i \in 1..Len(doc.order)}

C9_Witness ==
    /\ doc.builds > 0
    /\ DOMAIN build.Collisions # {}
    /\ \E i \in 1..Len(doc.order) :
          /\ GetName(doc.order[i]) # GetNameQualified(doc.order[i])
          /\ RegisteredAs(doc.order[i], GetNameQualified(doc.order[i]))


\* C26: a Build that follows a Build with no GetSchema in between returns
\* a document with the same schemas, leaves Collisions and the references
\* as the first Build left them, and no Build changes build.Document.
C26_BuildRepeatable ==
    [][(doc'.builds = doc.builds + 1) =>
          /\ build'.Document = build.Document
          /\ (doc.builds > 0 /\ doc.calls = call.n) =>
                /\ doc'.Schemas = doc.Schemas
                /\ build'.Collisions = build.Collisions
                /\ build'.refs = build.refs]_vars

\* C27: after Build, the reference of every type of the cache names an
\* entry of components.schemas, and that entry is the schema saved for that
\* type.
C27_ReferenceNamesOwnSchema ==
    (doc.builds > 0 /\ doc.calls = call.n) =>
        \A typ \in DOMAIN build.schemas :
            \E name \in DOMAIN doc.Schemas :
                /\ build.refs[typ] = RefTo(name)
                /\ doc.Schemas[name].typ = typ

\* the fields of typ that become properties of their own
OwnFields(typ) ==
    {i \in 1..Len(Fields(typ)) : ~GetJSONOptions(Fields(typ)[i]).skip /\ ~Fields(typ)[i].Anonymous}

\* a property is listed in the required set of its object
Listed(s, property) == \E i \in 1..Len(s.Required) : s.Required[i] = property

\* a property schema is nullable in either representation
NullableEither(s) == s.Nullable \/ IsWrapper(s)

\* C17: in every struct schema built in full, a field that is not skipped
\* is a property, and it is listed in the required set unless it is marked
\* omitempty or, NullableIsOptional being set, its property schema is
\* nullable by the inline flag or by the oneOf(reference, null) wrapper; and
\* with OptionalIsNullable set the property schema of every field left out
\* of the required set is nullable.
C17_RequiredUnlessOptional ==
    (AbortingOptions(tags.api) = {} /\ ~build.overflow) =>
        \A typ \in DOMAIN build.schemas \cap {"A", "q.A"} :
            LET s == build.nodes[build.schemas[typ]]
            IN \A i \in OwnFields(typ) :
                  LET json == GetJSONOptions(Fields(typ)[i])
                  IN /\ json.property \in DOMAIN s.Properties
                     /\ Listed(s, json.property) <=>
                            ~(\/ json.optional
                              \/ /\ build.NullableIsOptional
                                 /\ NullableEither(s.Properties[json.property]))
                     /\ (build.OptionalIsNullable /\ ~Listed(s, json.property)) =>
                            NullableEither(s.Properties[json.property])

\* C18: GetSchema on a struct with an embedded field, by value (L) or by
\* pointer (R), returns a schema whose properties are the embedded struct's
\* and its own, none named after the embedded field, and whose required
\* set lists them in field order.
C18_EmbeddedSpliced ==
    (call.n > 0 /\ call.typ \in {"L", "R"}) =>
        /\ ~build.panicked
        /\ call.id # 0
        /\ call.id = build.schemas[call.typ]
        /\ LET s == build.nodes[call.id]
           IN /\ DOMAIN s.Properties = {<<"z">>, <<"w">>, <<"o","w","n">>}
              /\ s.Required = <<<<"z">>>> \o (IF tags.omitempty THEN <<>> ELSE <<<<"o","w","n">>>>)

\* C20: no api tag aborts the build: whatever the tag, GetSchema comes back
\* with a schema.
C20_ApplyOptionsNeverAborts ==
    (call.n > 0 /\ ~build.overflow) => (~build.panicked /\ call.id # 0)


(***************************************************************************)
(* An api tag written from the values its fields are meant to get, and     *)
(* applied to a schema.  The tag is written as the documentation says: the *)
(* options joined by commas, the commas of a value and the bars of an enum *)
(* constant each with a backslash before them.                             *)
(***************************************************************************)
MaxValueLen == 2        \* characters in a title or in an enum constant
MaxEnum == 2            \* constants in an enum

OptionChars == {"a", ",", "\\", "|", "="}
Strings(chars, lengths) == UNION {[1..n -> chars] : n \in lengths}

\* the value with a backslash before every delim
RECURSIVE Escaped(_, _)
Escaped(value, delim) ==
    IF value = <<>> THEN <<>>
    ELSE (IF Head(value) = delim THEN <<"\\", delim>> ELSE <<Head(value)>>)
            \o Escaped(Tail(value), delim)

\* strings.Join
RECURSIVE Join(_, _)
Join(items, delim) ==
    IF items = <<>> THEN <<>>
    ELSE IF Len(items) = 1 THEN items[1]
    ELSE items[1] \o <<delim>> \o Join(Tail(items), delim)

WrittenTitle(key, title) == key \o <<"=">> \o Escaped(title, ",")
WrittenEnum(enum) ==
    KeyEnum \o <<"=">> \o
        Join([i \in 1..Len(enum) |-> Escaped(Escaped(enum[i], "|"), ",")], "|")

Annotations ==
    {[title |-> title, enum |-> enum,
      tag |-> IF titleFirst THEN Join(<<WrittenTitle(key, title), WrittenEnum(enum)>>, ",")
              ELSE Join(<<WrittenEnum(enum), WrittenTitle(key, title)>>, ","),
      s |-> EmptySchema, panicked |-> FALSE, applied |-> FALSE] :
        title \in Strings(OptionChars, 0..MaxValueLen),
        enum \in Strings(Strings(OptionChars \ {"="}, 1..MaxValueLen), 1..MaxEnum),
        key \in {KeyTitle, <<"T","i","t","l","e">>},
        titleFirst \in BOOLEAN}

InitOptions ==
    /\ annotation \in Annotations
    /\ ValidatorIdle
    /\ BuilderIdle
    /\ TreeIdle
    /\ TypesIdle
    /\ RunIdle
    /\ MergeIdle
    /\ QueryIdle

\* ApplyOptions(s, tag) on a new schema
CallApplyOptions ==
    /\ ~annotation.applied
    /\ \E r \in {ApplyTag(EmptySchema, annotation.tag)} :
          annotation' = [annotation EXCEPT !.s = r.s, !.panicked = r.panicked, !.applied = TRUE]
    /\ UNCHANGED <<vvars, bvars, tvars, cvars, rvars, mvars, qvars>>

NextOptions == CallApplyOptions

SpecOptions == InitOptions /\ [][NextOptions]_vars

\* C22: the schema gets the title and the enum constants the tag was
\* written from, commas and bars restored, the key and the "=" left out.
C22_OptionsRoundTrip ==
    annotation.applied =>
        /\ ~annotation.panicked
        /\ annotation.s.Title = annotation.title
        /\ annotation.s.Enum = annotation.enum

(***************************************************************************)
(* Document.Merge, as far as the tags go: a base document has the          *)
(* documents of the routers and operations merged into it one by one.      *)
(***************************************************************************)
MaxTags == 2            \* tags in the list of a document
MaxMerges == 2          \* documents merged into the base document

TagNames == {"a", "b"}
TagDescriptions == {"x", "y"}
Tags == [Name : TagNames, Description : TagDescriptions]
TagLists == Strings(Tags, 0..MaxTags)

\* Tag.IsUnique
IsUnique(base, next) == base.Name = next.Name

\* MergeSliceReplace, from the copy of base on: the loop over next
RECURSIVE MergeNext(_, _)
MergeNext(list, next) ==
    IF next = <<>> THEN list
    ELSE LET duplicate == \E i \in 1..Len(list) : ~IsUnique(list[i], Head(next))
         IN MergeNext(IF ~duplicate THEN Append(list, Head(next)) ELSE list, Tail(next))
MergeSliceReplace(base, next) == MergeNext(base, next)

\* Document.Merge
Merge(base, next) == [Tags |-> MergeSliceReplace(base.Tags, next.Tags)]

NamesOf(list) == {list[i].Name : i \in 1..Len(list)}
UniqueNames(list) == \A i, j \in 1..Len(list) : list[i].Name = list[j].Name => i = j

InitMerge ==
    /\ \E base \in {list \in TagLists : UniqueNames(list)} :
          merged = [base |-> [Tags |-> base], next |-> [Tags |-> <<>>],
                    Document |-> [Tags |-> base], merges |-> 0]
    /\ ValidatorIdle
    /\ BuilderIdle
    /\ TreeIdle
    /\ TypesIdle
    /\ RunIdle
    /\ OptionsIdle
    /\ QueryIdle

\* document = document.Merge(next)
CallMerge(next) ==
    /\ merged.merges < MaxMerges
    /\ merged' = [base |-> merged.Document, next |-> next,
                  Document |-> Merge(merged.Document, next), merges |-> merged.merges + 1]
    /\ UNCHANGED <<vvars, bvars, tvars, cvars, rvars, ovars, qvars>>

NextMerge == \E next \in TagLists : CallMerge([Tags |-> next])

SpecMerge == InitMerge /\ [][NextMerge]_vars

\* C23: merging a list of tags into a list whose names are unique keeps
\* the base tags in their places, has a tag for every name of the second
\* list, and has no name twice.
C23_TagNamesUnique ==
    (merged.merges > 0 /\ UniqueNames(merged.base.Tags)) =>
        /\ SubSeq(merged.Document.Tags, 1, Len(merged.base.Tags)) = merged.base.Tags
        /\ NamesOf(merged.next.Tags) \subseteq NamesOf(merged.Document.Tags)
        /\ UniqueNames(merged.Document.Tags)

(***************************************************************************)
(* The value tree (queryNode) that binds query, path and form values.  A   *)
(* *queryNode is <<>> when nil and <<node>> otherwise; a node's id is the  *)
(* list of selectors that lead to it from the root.                        *)
(***************************************************************************)
MaxPairs == 3           \* keys in the url.Values bound by one request

queryNodeKindUnspecified == 0
queryNodeKindSlice == 1
queryNodeKindObject == 2
queryNodeKindValue == 3

\* &queryNode{}
NewQueryNode ==
    [kind |-> queryNodeKindUnspecified, arr |-> <<>>, obj |-> [key \in {} |-> 0], value |-> <<>>]

\* the selector by which get(x) reaches the child
Selector(x) ==
    IF Atoi(x).err THEN [index |-> -1, key |-> x] ELSE [index |-> Atoi(x).i, key |-> <<>>]

\* the child a selector leads to, <<>> when there is none
ChildAt(node, sel) ==
    IF sel.index >= 0
    THEN IF sel.index < Len(node.arr) THEN node.arr[sel.index + 1] ELSE <<>>
    ELSE IF sel.key \in DOMAIN node.obj THEN <<node.obj[sel.key]>> ELSE <<>>

\* queryNode.get up to the return of the child: the node with its kind set
\* and the child in place.  An index below zero is out of range for arr.
get(node, x) ==
    LET a == Atoi(x)
    IN IF ~a.err
       THEN LET n1 == [node EXCEPT !.kind = queryNodeKindSlice]
            IN IF a.i < 0 THEN [node |-> n1, panicked |-> TRUE]
               ELSE LET arr == IF Len(n1.arr) <= a.i
                               THEN [k \in 1..(a.i + 1) |-> IF k <= Len(n1.arr) THEN n1.arr[k] ELSE <<>>]
                               ELSE n1.arr
                        arr1 == IF arr[a.i + 1] = <<>>
                                THEN [arr EXCEPT ![a.i + 1] = <<NewQueryNode>>] ELSE arr
                    IN [node |-> [n1 EXCEPT !.arr = arr1], panicked |-> FALSE]
       ELSE LET n1 == [node EXCEPT !.kind = queryNodeKindObject]
                obj == IF x \in DOMAIN n1.obj THEN n1.obj
                       ELSE [k \in DOMAIN n1.obj \cup {x} |-> IF k = x THEN NewQueryNode ELSE n1.obj[k]]
            IN [node |-> [n1 EXCEPT !.obj = obj], panicked |-> FALSE]

\* queryNode.set
set(node, value) == [node EXCEPT !.value = <<value>>, !.kind = queryNodeKindValue]

\* the write through the pointer get returned
WithChild(node, sel, child) ==
    IF sel.index >= 0 THEN [node EXCEPT !.arr[sel.index + 1] = <<child>>]
    ELSE [node EXCEPT !.obj[sel.key] = child]

\* curr = curr.get(segment) for every segment of path, then curr.set(value)
RECURSIVE BindPath(_, _, _)
BindPath(node, path, value) ==
    IF path = <<>> THEN [node |-> set(node, value), panicked |-> FALSE]
    ELSE LET g == get(node, Head(path))
             sel == Selector(Head(path))
         IN IF g.panicked THEN g
            ELSE LET c == BindPath(ChildAt(g.node, sel)[1], Tail(path), value)
                 IN [node |-> WithChild(g.node, sel, c.node), panicked |-> c.panicked]

\* strings.TrimRight(k, "]")
RECURSIVE TrimRight(_)
TrimRight(k) ==
    IF k # <<>> /\ k[Len(k)] = "]" THEN TrimRight(SubSeq(k, 1, Len(k) - 1)) ELSE k

\* urlKeySplitter.Split(k, -1): the pieces between the runs of "[", "]", "."
Separators == {"[", "]", "."}
RECURSIVE DropSeparators(_)
DropSeparators(s) ==
    IF s # <<>> /\ Head(s) \in Separators THEN DropSeparators(Tail(s)) ELSE s
RECURSIVE SplitFrom(_, _)
SplitFrom(rest, piece) ==
    IF rest = <<>> THEN <<piece>>
    ELSE IF Head(rest) \in Separators
    THEN <<piece>> \o SplitFrom(DropSeparators(rest), <<>>)
    ELSE SplitFrom(Tail(rest), Append(piece, Head(rest)))
Split(k) == SplitFrom(k, <<>>)

\* the values convert returns: value is <<>> or <<v>> with v the Go value of
\* a leaf
JSONNull == [tag |-> "null", items |-> <<>>, fields |-> [key \in {} |-> 0], value |-> <<>>]
JSONScalar(value) == [JSONNull EXCEPT !.tag = "scalar", !.value = <<value>>]

\* queryNode.convert
RECURSIVE convert(_)
convert(node) ==
    IF node.kind = queryNodeKindSlice
    THEN [JSONNull EXCEPT !.tag = "array",
                          !.items = [i \in 1..Len(node.arr) |->
                                        IF node.arr[i] # <<>> THEN convert(node.arr[i][1]) ELSE JSONNull]]
    ELSE IF node.kind = queryNodeKindObject
    THEN [JSONNull EXCEPT !.tag = "object",
                          !.fields = [key \in DOMAIN node.obj |-> convert(node.obj[key])]]
    ELSE IF node.value = <<>> THEN JSONNull ELSE JSONScalar(node.value[1])

\* the destination types of a binding: reflect.Type.Kind and Elem.  T and U
\* are the structs
\*   type T struct { A []int64 `json:"a"`; B []string `json:"b"` }
\*   type U struct { A []int `json:"a"`; B int `json:"b"` }
DestinationKind(typ) ==
    CASE typ = "map[string]any" -> "map"
      [] typ \in {"[]string", "[]int", "[]int64"} -> "slice"
      [] typ = "string" -> "string"
      [] typ = "int" -> "int"
      [] typ = "int64" -> "int64"
      [] typ \in {"T", "U"} -> "struct"
DestinationElem(typ) ==
    CASE typ = "[]int" -> "int"
      [] typ = "[]int64" -> "int64"
      [] OTHER -> "string"

\* getType run to its end by one goroutine: the fields of a struct under
\* their lower-cased keys, an empty descriptor <<>> for any other type
StructFields(typ) ==
    CASE typ = "T" -> <<[key |-> <<"A">>, fieldType |-> "[]int64"], [key |-> <<"B">>, fieldType |-> "[]string"]>>
      [] typ = "U" -> <<[key |-> <<"A">>, fieldType |-> "[]int"], [key |-> <<"B">>, fieldType |-> "int"]>>
      [] OTHER -> <<>>
getType(typ) ==
    IF DestinationKind(typ) # "struct" THEN <<>>
    ELSE LET fs == StructFields(typ)
         IN <<[key \in {ToLower(fs[i].key) : i \in 1..Len(fs)} |->
                 (CHOOSE f \in {fs[i] : i \in 1..Len(fs)} : ToLower(f.key) = key).fieldType]>>

\* strings.Split(s, ",")
RECURSIVE SplitComma(_, _)
SplitComma(rest, piece) ==
    IF rest = <<>> THEN <<piece>>
    ELSE IF Head(rest) = "," THEN <<piece>> \o SplitComma(Tail(rest), <<>>)
    ELSE SplitComma(Tail(rest), Append(piece, Head(rest)))

\* parseType for the kinds of the destination types.  ParseInt yields an
\* int64 whatever the integer kind asked for, and reflect.Append panics when
\* handed an item whose type is not the slice's element type.
RECURSIVE parseType(_, _)
parseItems(elem, parts) ==
    LET items == [i \in 1..Len(parts) |-> parseType(elem, parts[i])]
        stops == {i \in 1..Len(parts) : items[i].err \/ items[i].panicked \/ items[i].val.typ # elem}
        stop == IF stops = {} THEN 0 ELSE CHOOSE i \in stops : \A j \in stops : i <= j
    IN IF stop = 0
       THEN [val |-> SliceValue(elem, FALSE, [i \in 1..Len(parts) |-> items[i].val]),
             err |-> FALSE, panicked |-> FALSE]
       ELSE [val |-> NilValue, err |-> items[stop].err,
             panicked |-> ~items[stop].err]
parseType(t, s) ==
    CASE DestinationKind(t) \in {"int", "int64"} ->
            IF Atoi(s).err THEN [val |-> IntValue(0) , err |-> TRUE, panicked |-> FALSE]
            ELSE [val |-> [IntValue(Atoi(s).i) EXCEPT !.typ = "int64"], err |-> FALSE, panicked |-> FALSE]
      [] DestinationKind(t) = "string" -> [val |-> StringValue(s), err |-> FALSE, panicked |-> FALSE]
      [] DestinationKind(t) = "slice" -> parseItems(DestinationElem(t), SplitComma(s, <<>>))
      [] OTHER -> [val |-> NilValue, err |-> TRUE, panicked |-> FALSE]

\* queryNode.fixForType, called through the pointer node: <<>> is a nil
\* *queryNode, whose kind cannot be read.  None of the destination types is
\* a pointer, so getConcrete leaves typ as it is.
RECURSIVE fixForType(_, _)
fixForType(node, typ) ==
    IF node = <<>> THEN [node |-> node, panicked |-> TRUE]
    ELSE IF node[1].kind = queryNodeKindSlice /\ DestinationKind(typ) \in {"slice", "array"}
    THEN LET items == [i \in 1..Len(node[1].arr) |-> fixForType(node[1].arr[i], DestinationElem(typ))]
         IN [node |-> <<[node[1] EXCEPT !.arr = [i \in 1..Len(items) |-> items[i].node]]>>,
             panicked |-> \E i \in 1..Len(items) : items[i].panicked]
    ELSE IF node[1].kind = queryNodeKindObject /\ getType(typ) # <<>>
    THEN LET jt == getType(typ)[1]
             fixed == [k \in DOMAIN node[1].obj |->
                          IF ToLower(k) \in DOMAIN jt
                          THEN fixForType(<<node[1].obj[k]>>, jt[ToLower(k)])
                          ELSE [node |-> <<node[1].obj[k]>>, panicked |-> FALSE]]
         IN [node |-> <<[node[1] EXCEPT !.obj = [k \in DOMAIN fixed |-> fixed[k].node[1]]]>>,
             panicked |-> \E k \in DOMAIN fixed : fixed[k].panicked]
    ELSE IF /\ node[1].kind = queryNodeKindValue /\ node[1].value # <<>>
            /\ node[1].value[1].typ # typ
    THEN LET parsed == parseType(typ, toString(node[1].value[1]))
         IN IF parsed.panicked THEN [node |-> node, panicked |-> TRUE]
            ELSE IF parsed.err THEN [node |-> node, panicked |-> FALSE]
            ELSE [node |-> <<[node[1] EXCEPT !.value = <<parsed.val>>]>>, panicked |-> FALSE]
    ELSE [node |-> node, panicked |-> FALSE]

\* json.Decoder.Decode of the encoded value into a destination of type typ:
\* null leaves the destination as it is, a JSON string goes into a string, a
\* JSON number into an integer, an array into a slice item by item, an
\* object into a map or, by the keys that name a field, into a struct.
RECURSIVE decodeJson(_, _)
decodeJson(typ, m) ==
    LET kind == DestinationKind(typ)
    IN IF m.tag = "null" THEN [err |-> FALSE, target |-> JSONNull]
       ELSE IF m.tag = "scalar"
       THEN IF \/ kind = "string" /\ m.value[1].kind = "string"
               \/ kind \in {"int", "int64"} /\ m.value[1].kind = "int"
            THEN [err |-> FALSE, target |-> m]
            ELSE [err |-> TRUE, target |-> JSONNull]
       ELSE IF m.tag = "array" /\ kind = "slice"
       THEN LET items == [i \in 1..Len(m.items) |-> decodeJson(DestinationElem(typ), m.items[i])]
            IN [err |-> \E i \in 1..Len(items) : items[i].err,
                target |-> [m EXCEPT !.items = [i \in 1..Len(items) |-> items[i].target]]]
       ELSE IF m.tag = "object" /\ kind = "map" THEN [err |-> FALSE, target |-> m]
       ELSE IF m.tag = "object" /\ kind = "struct"
       THEN LET jt == getType(typ)[1]
                known == {k \in DOMAIN m.fields : ToLower(k) \in DOMAIN jt}
                fields == [k \in known |-> decodeJson(jt[ToLower(k)], m.fields[k])]
            IN [err |-> \E k \in known : fields[k].err,
                target |-> [m EXCEPT !.fields = [k \in known |-> fields[k].target]]]
       ELSE [err |-> TRUE, target |-> JSONNull]

\* applyJSONValueToTarget: the value is encoded as JSON and decoded into the
\* destination.
applyJSONValueToTarget(typ, m) == decodeJson(typ, m)

(***************************************************************************)
(* A binding: applyURLValuesToTarget ranges over the values in the order   *)
(* the map yields them, one key per step, then coerces, converts and       *)
(* decodes.                                                                *)
(***************************************************************************)
Keys ==
    {<<"a">>,
     <<"a","[","0","]">>,
     <<"a",".","0">>,
     <<"a","[","b","]">>,
     <<"a","[","1","]","[","c","]">>,
     <<"0">>,
     <<"b","[","-","1","]">>,
     <<"b","[","2","]">>}
ValueLists ==
    {<<>>, <<StringValue(<<"x">>)>>, <<StringValue(<<"7">>), StringValue(<<"x">>)>>,
     <<StringValue(<<"1", ",", "2">>)>>, <<StringValue(<<"1", ",", "x">>)>>}
UrlValues ==
    UNION {[keys -> ValueLists] : keys \in {ks \in SUBSET Keys : Cardinality(ks) \in 1..MaxPairs}}
Destinations == {"map[string]any", "[]string", "T", "U"}

\* the ids of the nodes a path leads through, the root left out
NodeIds(path) == {[i \in 1..n |-> Selector(path[i])] : n \in 1..Len(path)}

RECURSIVE NodeAt(_, _)
NodeAt(node, id) ==
    IF id = <<>> THEN node ELSE NodeAt(ChildAt(node, Head(id))[1], Tail(id))

InitTree ==
    /\ values \in UrlValues
    /\ todo = DOMAIN values
    /\ outNode = [NewQueryNode EXCEPT !.kind = queryNodeKindObject]
    /\ history = [kind |-> [id \in {} |-> 0], value |-> [id \in {} |-> 0]]
    /\ \E typ \in Destinations : result = [at |-> "binding", step |-> "", typ |-> typ, out |-> JSONNull, err |-> FALSE]
    /\ ValidatorIdle
    /\ BuilderIdle
    /\ TypesIdle
    /\ RunIdle
    /\ OptionsIdle
    /\ MergeIdle
    /\ QueryIdle

\* one turn of the loop over values
BindPair(k) ==
    /\ result.at = "binding"
    /\ k \in todo
    /\ todo' = todo \ {k}
    /\ IF Len(values[k]) = 0 THEN UNCHANGED <<outNode, history, result>>
       ELSE LET path == Split(TrimRight(k))
                r == BindPath(outNode, path, values[k][1])
                leaf == [i \in 1..Len(path) |-> Selector(path[i])]
            IN IF r.panicked
               THEN /\ result' = [result EXCEPT !.at = "panicked", !.step = "BindPair"]
                    /\ UNCHANGED <<outNode, history>>
               ELSE /\ outNode' = r.node
                    /\ history' =
                          [kind |-> [id \in DOMAIN history.kind \cup NodeIds(path) |->
                                        IF id \in DOMAIN history.kind THEN history.kind[id]
                                        ELSE NodeAt(r.node, id).kind],
                           value |-> [id \in DOMAIN history.value \cup {leaf} |->
                                        IF id = leaf THEN values[k][1] ELSE history.value[id]]]
                    /\ UNCHANGED result
    /\ UNCHANGED values
    /\ UNCHANGED <<vvars, bvars, cvars, rvars, ovars, mvars, qvars>>

\* after the loop: fixForType, convert, applyJSONValueToTarget
Finish ==
    /\ result.at = "binding"
    /\ todo = {}
    /\ LET fixed == fixForType(<<outNode>>, result.typ)
       IN IF fixed.panicked
          THEN /\ result' = [result EXCEPT !.at = "panicked", !.step = "Finish"]
               /\ UNCHANGED outNode
          ELSE LET out == convert(fixed.node[1])
                   applied == applyJSONValueToTarget(result.typ, out)
               IN /\ outNode' = fixed.node[1]
                  /\ result' = [result EXCEPT !.at = "done", !.step = "Finish", !.out = out, !.err = applied.err]
    /\ UNCHANGED <<values, todo, history>>
    /\ UNCHANGED <<vvars, bvars, cvars, rvars, ovars, mvars, qvars>>

NextTree ==
    \/ \E k \in Keys : BindPair(k)
    \/ Finish

SpecTree == InitTree /\ [][NextTree]_vars

(***************************************************************************)
(* Properties of the value tree                                            *)
(***************************************************************************)
\* the converted value a node id leads to, null when the path breaks off
RECURSIVE Lookup(_, _)
Lookup(m, id) ==
    IF id = <<>> THEN m
    ELSE IF Head(id).index >= 0
    THEN IF m.tag = "array" /\ Head(id).index < Len(m.items)
         THEN Lookup(m.items[Head(id).index + 1], Tail(id)) ELSE JSONNull
    ELSE IF m.tag = "object" /\ Head(id).key \in DOMAIN m.fields
         THEN Lookup(m.fields[Head(id).key], Tail(id)) ELSE JSONNull

\* C10: a node keeps the kind its first access gave it whatever is accessed
\* later, and the value set at a node is found at that node in the converted
\* result (as it was set when the destination is a map, which coerces nothing).
C10_KindStable ==
    (result.at # "panicked") =>
        /\ \A id \in DOMAIN history.kind : NodeAt(outNode, id).kind = history.kind[id]
        /\ (result.at = "done") =>
              \A id \in DOMAIN history.value :
                  /\ Lookup(result.out, id).tag = "scalar"
                  /\ (result.typ = "map[string]any") =>
                        Lookup(result.out, id) = JSONScalar(history.value[id])

\* the keys whose pair the loop has bound so far
Bound == {k \in DOMAIN values \ todo : Len(values[k]) > 0}

\* the ids of the unset positions of the array nodes that coercion walks
\* through with a slice as their destination
RECURSIVE Gaps(_, _)
Gaps(node, typ) ==
    IF node.kind = queryNodeKindSlice /\ DestinationKind(typ) = "slice"
    THEN UNION {IF node.arr[i] = <<>> THEN {<<[index |-> i - 1, key |-> <<>>]>>}
                ELSE {<<[index |-> i - 1, key |-> <<>>]>> \o id :
                         id \in Gaps(node.arr[i][1], DestinationElem(typ))} : i \in 1..Len(node.arr)}
    ELSE IF node.kind = queryNodeKindObject /\ getType(typ) # <<>>
    THEN UNION {{<<[index |-> -1, key |-> k]>> \o id : id \in Gaps(node.obj[k], getType(typ)[1][ToLower(k)])} :
                   k \in {key \in DOMAIN node.obj : ToLower(key) \in DOMAIN getType(typ)[1]}}
    ELSE {}

\* C11: when the bound indices leave gaps in an array whose destination is a
\* slice, coercion and conversion complete normally and the converted value
\* holds null at every gap.
C11_GapsYieldNull ==
    (result.step = "Finish" /\ Gaps(outNode, result.typ) # {}) =>
        /\ result.at = "done"
        /\ \A id \in Gaps(outNode, result.typ) : Lookup(result.out, id) = JSONNull

\* C12: get returns a child for every segment, and a segment that is a
\* negative integer is used as the name of a field of an object node.
C12_NegativeIsFieldName ==
    /\ ~(result.at = "panicked" /\ result.step = "BindPair")
    /\ \A k \in Bound :
          LET path == Split(TrimRight(k))
          IN \A i \in 1..Len(path) :
                (~Atoi(path[i]).err /\ Atoi(path[i]).i < 0) =>
                    path[i] \in DOMAIN NodeAt(outNode, [j \in 1..(i - 1) |-> Selector(path[j])]).obj

\* the destination type coercion has for the node at id, <<>> when coercion
\* does not come to that node
RECURSIVE TypeAt(_, _, _)
TypeAt(node, typ, id) ==
    IF id = <<>> THEN <<typ>>
    ELSE IF Head(id).index >= 0
    THEN IF node.kind = queryNodeKindSlice /\ DestinationKind(typ) = "slice"
         THEN TypeAt(ChildAt(node, Head(id))[1], DestinationElem(typ), Tail(id)) ELSE <<>>
    ELSE IF /\ node.kind = queryNodeKindObject /\ getType(typ) # <<>>
            /\ ToLower(Head(id).key) \in DOMAIN getType(typ)[1]
         THEN TypeAt(ChildAt(node, Head(id))[1], getType(typ)[1][ToLower(Head(id).key)], Tail(id))
         ELSE <<>>

\* what the leaf set to the string s holds after coercion to the type typ:
\* the parsed integer, the slice of the parsed parts when every part parses,
\* and otherwise the string as it was
Coerced(typ, s, value) ==
    LET parts == SplitComma(s, <<>>)
    IN IF DestinationKind(typ) \in {"int", "int64"} /\ ~Atoi(s).err
       THEN value.kind = "int" /\ value.n = Atoi(s).i
       ELSE IF /\ DestinationKind(typ) = "slice" /\ DestinationElem(typ) \in {"int", "int64"}
               /\ \A i \in 1..Len(parts) : ~Atoi(parts[i]).err
       THEN /\ value.kind = "slice" /\ Len(value.items) = Len(parts)
            /\ \A i \in 1..Len(parts) : value.items[i].n = Atoi(parts[i]).i
       ELSE IF DestinationKind(typ) = "slice" /\ DestinationElem(typ) = "string"
       THEN /\ value.kind = "slice" /\ Len(value.items) = Len(parts)
            /\ \A i \in 1..Len(parts) : value.items[i] = StringValue(parts[i])
       ELSE value = StringValue(s)

\* C13: coercion of a tree without gaps ends normally, and every leaf it
\* comes to holds the parsed value when its string parses as the destination
\* type and the string it was set to when it does not.
C13_CoercionNeverFails ==
    (result.step = "Finish" /\ Gaps(outNode, result.typ) = {}) =>
        /\ result.at = "done"
        /\ \A id \in DOMAIN history.value :
              LET node == NodeAt(outNode, id)
                  typ == TypeAt(outNode, result.typ, id)
              IN (node.kind = queryNodeKindValue /\ typ # <<>>) =>
                    Coerced(typ[1], history.value[id].s, node.value[1])

\* the loop over values run to its end with the map yielding the keys in
\* the given order
RECURSIVE BindInOrder(_, _)
BindInOrder(node, order) ==
    IF order = <<>> THEN [node |-> node, panicked |-> FALSE]
    ELSE LET r == BindPath(node, Split(TrimRight(Head(order))), values[Head(order)][1])
         IN IF r.panicked THEN r ELSE BindInOrder(r.node, Tail(order))

\* what applyURLValuesToTarget converts the tree to when the map yields the
\* keys in the given order, <<>> when it panics on the way
ConvertedInOrder(order, typ) ==
    LET bound == BindInOrder([NewQueryNode EXCEPT !.kind = queryNodeKindObject], order)
        fixed == fixForType(<<bound.node>>, typ)
    IN IF bound.panicked \/ fixed.panicked THEN <<>> ELSE <<convert(fixed.node[1])>>

\* C28: the converted tree is the one every order of insertion of the same
\* pairs leads to.
C28_OrderIndependent ==
    (result.at = "done") =>
        \A order \in Orders(Bound) : ConvertedInOrder(order, result.typ) = <<result.out>>

(***************************************************************************)
(* getType run by several request goroutines at once.  jsonTypes and the   *)
(* fields of a descriptor are plain Go maps: a map write takes two steps,  *)
(* between which the runtime has the map marked as being written, and a    *)
(* read or write of that map by another goroutine in between is a data     *)
(* race, which either ends the process (fatal error: concurrent map read   *)
(* and map write) or goes through.  A descriptor is an index into          *)
(* jsonTypes.heap, 0 for nil.                                              *)
(***************************************************************************)
MaxRequests == 3        \* request goroutines binding at the same time

\* an access by goroutine g of a map that goroutine `writing` is writing
Raced(writing, g) == writing # 0 /\ writing # g

Alive == \A g \in DOMAIN requests : requests[g].pc # "fatal"

InitTypes ==
    /\ jsonTypes = [entries |-> [typ \in {} |-> 0], writing |-> 0, heap |-> <<>>]
    /\ requests \in [1..MaxRequests ->
                       {[pc |-> "getType", typ |-> typ, jt |-> 0, i |-> 1, seen |-> {}] : typ \in {"T", "U"}}]
    /\ ValidatorIdle
    /\ BuilderIdle
    /\ TreeIdle
    /\ RunIdle
    /\ OptionsIdle
    /\ MergeIdle
    /\ QueryIdle

\* jt := jsonTypes[typ]; if jt != nil { return jt }
ReadTypes(g) ==
    /\ Alive
    /\ requests[g].pc = "getType"
    /\ \/ /\ Raced(jsonTypes.writing, g)
          /\ requests' = [requests EXCEPT ![g].pc = "fatal"]
       \/ LET typ == requests[g].typ
          IN requests' = [requests EXCEPT
                 ![g].pc = IF typ \in DOMAIN jsonTypes.entries THEN "fixForType" ELSE "jt",
                 ![g].jt = IF typ \in DOMAIN jsonTypes.entries THEN jsonTypes.entries[typ] ELSE 0]
    /\ UNCHANGED jsonTypes
    /\ UNCHANGED <<vvars, bvars, tvars, rvars, ovars, mvars, qvars>>

\* jt = &jsonType{fields: make(...)}; jsonTypes[typ] = jt, up to the point
\* where the map is marked as being written
WriteTypes(g) ==
    /\ Alive
    /\ requests[g].pc = "jt"
    /\ \/ /\ Raced(jsonTypes.writing, g)
          /\ requests' = [requests EXCEPT ![g].pc = "fatal"]
          /\ UNCHANGED jsonTypes
       \/ LET typ == requests[g].typ
              jt == Len(jsonTypes.heap) + 1
          IN /\ jsonTypes' =
                   [entries |-> [t \in DOMAIN jsonTypes.entries \cup {typ} |->
                                    IF t = typ THEN jt ELSE jsonTypes.entries[t]],
                    writing |-> g,
                    heap |-> Append(jsonTypes.heap, [fields |-> {}, writing |-> 0])]
             /\ requests' = [requests EXCEPT ![g].pc = "stored", ![g].jt = jt]
    /\ UNCHANGED <<vvars, bvars, tvars, rvars, ovars, mvars, qvars>>

\* the end of the write jsonTypes[typ] = jt
WrittenTypes(g) ==
    /\ Alive
    /\ requests[g].pc = "stored"
    /\ jsonTypes' = [jsonTypes EXCEPT !.writing = 0]
    /\ requests' = [requests EXCEPT ![g].pc = "iterateFields", ![g].i = 1]
    /\ UNCHANGED <<vvars, bvars, tvars, rvars, ovars, mvars, qvars>>

\* iterateFields: jt.fields[key] = &jsonField{...} for the i-th field, up to
\* the point where the map is marked as being written.  Only the goroutine
\* that made jt writes its fields.
WriteField(g) ==
    /\ Alive
    /\ requests[g].pc = "iterateFields"
    /\ LET jt == requests[g].jt
           key == ToLower(StructFields(requests[g].typ)[requests[g].i].key)
       IN jsonTypes' = [jsonTypes EXCEPT !.heap[jt].fields = @ \cup {key}, !.heap[jt].writing = g]
    /\ requests' = [requests EXCEPT ![g].pc = "field"]
    /\ UNCHANGED <<vvars, bvars, tvars, rvars, ovars, mvars, qvars>>

\* the end of the write of the i-th field; after the last one, return jt
WrittenField(g) ==
    /\ Alive
    /\ requests[g].pc = "field"
    /\ jsonTypes' = [jsonTypes EXCEPT !.heap[requests[g].jt].writing = 0]
    /\ requests' = [requests EXCEPT
           ![g].pc = IF requests[g].i = Len(StructFields(requests[g].typ)) THEN "fixForType" ELSE "iterateFields",
           ![g].i = IF requests[g].i = Len(StructFields(requests[g].typ)) THEN 1 ELSE requests[g].i + 1]
    /\ UNCHANGED <<vvars, bvars, tvars, rvars, ovars, mvars, qvars>>

\* the caller, fixForType: field := jt.fields[strings.ToLower(k)] for the
\* i-th key of an object that names every field of the type
ReadField(g) ==
    /\ Alive
    /\ requests[g].pc = "fixForType"
    /\ \/ /\ Raced(jsonTypes.heap[requests[g].jt].writing, g)
          /\ requests' = [requests EXCEPT ![g].pc = "fatal"]
       \/ LET key == ToLower(StructFields(requests[g].typ)[requests[g].i].key)
              last == requests[g].i = Len(StructFields(requests[g].typ))
          IN requests' = [requests EXCEPT
                 ![g].seen = IF key \in jsonTypes.heap[requests[g].jt].fields THEN @ \cup {key} ELSE @,
                 ![g].pc = IF last THEN "done" ELSE "fixForType",
                 ![g].i = IF last THEN @ ELSE @ + 1]
    /\ UNCHANGED jsonTypes
    /\ UNCHANGED <<vvars, bvars, tvars, rvars, ovars, mvars, qvars>>

NextTypes ==
    \E g \in 1..MaxRequests :
        \/ ReadTypes(g)
        \/ WriteTypes(g)
        \/ WrittenTypes(g)
        \/ WriteField(g)
        \/ WrittenField(g)
        \/ ReadField(g)

SpecTypes == InitTypes /\ [][NextTypes]_vars

\* C14: no lookup faults, and a request that was handed a descriptor of its
\* type finds every field of the type in it.
C14_LookupsBenign ==
    \A g \in DOMAIN requests :
        /\ requests[g].pc # "fatal"
        /\ (requests[g].pc = "done") =>
              requests[g].seen = {ToLower(f.key) : f \in {StructFields(requests[g].typ)[i] :
                                                            i \in 1..Len(StructFields(requests[g].typ))}}

(***************************************************************************)
(* RunConcurrently and RunPooled (package db).  Every runnable gets a      *)
(* goroutine; lastError is an unbuffered channel, on which a send waits    *)
(* for the caller's receive, and the caller receives only in the select    *)
(* that follows group.Wait.  jobs is a channel buffered to poolSize that   *)
(* holds the free slots of the pool.                                       *)
(***************************************************************************)
MaxRunnables == 3       \* runnables handed to a runner
MaxPoolSize == 2        \* poolSize handed to RunPooled

Runners ==
    {[runner |-> "RunConcurrently", many |-> many, poolSize |-> 0] :
        many \in UNION {[1..n -> BOOLEAN] : n \in 0..MaxRunnables}}
    \cup
    {[runner |-> "RunPooled", many |-> many, poolSize |-> poolSize] :
        many \in UNION {[1..n -> BOOLEAN] : n \in 0..MaxRunnables}, poolSize \in 0..MaxPoolSize}

\* the runner up to group.Wait: the context, the channels, the pool filled
\* with poolSize slots, group.Add(1) and a goroutine for every runnable.
\* many[i] says whether the i-th runnable fails by itself.
InitRun ==
    /\ runnables \in Runners
    /\ routine = [i \in 1..Len(runnables.many) |->
                     IF runnables.runner = "RunPooled" THEN "jobs" ELSE "Run"]
    /\ shared = [cancelled |-> FALSE, closed |-> FALSE, jobs |-> runnables.poolSize,
                 group |-> Len(runnables.many), errors |-> {}, pc |-> "Wait", err |-> 0,
                 runs |-> [i \in 1..Len(runnables.many) |-> 0]]
    /\ ValidatorIdle
    /\ BuilderIdle
    /\ TreeIdle
    /\ TypesIdle
    /\ OptionsIdle
    /\ MergeIdle
    /\ QueryIdle

\* a goroutine that goes on to Run without taking a slot
AcquireJobNoSlot(i) ==
    /\ i \in DOMAIN routine
    /\ routine[i] = "jobs"
    /\ routine' = [routine EXCEPT ![i] = "Run"]
    /\ UNCHANGED <<runnables, shared>>
    /\ UNCHANGED <<vvars, bvars, tvars, cvars, ovars, mvars, qvars>>

\* <-jobs: waits for a free slot
AcquireJob(i) ==
    /\ i \in DOMAIN routine
    /\ routine[i] = "jobs"
    /\ shared.jobs > 0
    /\ shared' = [shared EXCEPT !.jobs = @ - 1]
    /\ routine' = [routine EXCEPT ![i] = "Run"]
    /\ UNCHANGED runnables
    /\ UNCHANGED <<vvars, bvars, tvars, cvars, ovars, mvars, qvars>>

\* err := run.Run(cancelCtx, able); on an error cancel(), and the goroutine
\* comes to the send lastError <- err.  A runnable that does not fail by
\* itself may still return the context's error once the context is cancelled.
\* shared.runs counts the calls of Run that have returned.
RunRunnable(i) ==
    /\ i \in DOMAIN routine
    /\ routine[i] = "Run"
    /\ \E failed \in IF runnables.many[i] THEN {TRUE}
                     ELSE IF shared.cancelled THEN {TRUE, FALSE} ELSE {FALSE} :
          IF failed
          THEN /\ shared' = [shared EXCEPT !.cancelled = TRUE, !.errors = @ \cup {i},
                                        !.runs[i] = @ + 1]
               /\ routine' = [routine EXCEPT ![i] = "lastError"]
          ELSE /\ routine' = [routine EXCEPT ![i] =
                                 IF runnables.runner = "RunPooled" THEN "release" ELSE "Done"]
               /\ shared' = [shared EXCEPT !.runs[i] = @ + 1]
    /\ UNCHANGED runnables
    /\ UNCHANGED <<vvars, bvars, tvars, cvars, ovars, mvars, qvars>>

\* jobs <- struct{}{}: the slot goes back to the pool
ReleaseJob(i) ==
    /\ i \in DOMAIN routine
    /\ routine[i] = "release"
    /\ shared.jobs < runnables.poolSize
    /\ shared' = [shared EXCEPT !.jobs = @ + 1]
    /\ routine' = [routine EXCEPT ![i] = "Done"]
    /\ UNCHANGED runnables
    /\ UNCHANGED <<vvars, bvars, tvars, cvars, ovars, mvars, qvars>>

\* the end of the goroutine: close(lastError) when its send was received,
\* then the deferred group.Done()
GroupDone(i) ==
    /\ i \in DOMAIN routine
    /\ routine[i] \in {"Done", "close"}
    /\ IF routine[i] = "close" /\ shared.closed
       THEN /\ routine' = [routine EXCEPT ![i] = "panicked"]
            /\ shared' = [shared EXCEPT !.group = @ - 1]
       ELSE /\ routine' = [routine EXCEPT ![i] = "exit"]
            /\ shared' = [shared EXCEPT !.group = @ - 1,
                                        !.closed = @ \/ routine[i] = "close"]
    /\ UNCHANGED runnables
    /\ UNCHANGED <<vvars, bvars, tvars, cvars, ovars, mvars, qvars>>

\* the caller: group.Wait() returns when the counter is zero; then
\* close(jobs), cancel() and the select, which receives from lastError when
\* a goroutine waits in its send (or the channel is closed) and otherwise
\* takes the default
WaitAndReturn ==
    /\ shared.pc = "Wait"
    /\ shared.group = 0
    /\ LET senders == {i \in DOMAIN routine : routine[i] = "lastError"}
       IN IF senders # {}
          THEN \E i \in senders :
                  /\ routine' = [routine EXCEPT ![i] = "close"]
                  /\ shared' = [shared EXCEPT !.pc = "returned", !.cancelled = TRUE, !.err = i]
          ELSE /\ shared' = [shared EXCEPT !.pc = "returned", !.cancelled = TRUE, !.err = 0]
               /\ UNCHANGED routine
    /\ UNCHANGED runnables
    /\ UNCHANGED <<vvars, bvars, tvars, cvars, ovars, mvars, qvars>>

NextRun ==
    \/ \E i \in 1..MaxRunnables : AcquireJob(i)
    \/ \E i \in 1..MaxRunnables : RunRunnable(i)
    \/ \E i \in 1..MaxRunnables : ReleaseJob(i)
    \/ \E i \in 1..MaxRunnables : GroupDone(i)
    \/ WaitAndReturn

SpecRun == InitRun /\ [][NextRun]_vars

\* C19: called with a pool of at least one slot, the runner always returns
\* (it has returned or a step is left to take), and it returns an error, one
\* that a runnable returned, exactly when some runnable returned one.
C19_AlwaysReturns ==
    (runnables.runner = "RunPooled" => runnables.poolSize >= 1) =>
        /\ shared.pc = "returned" \/ ENABLED NextRun
        /\ (shared.pc = "returned") =>
              /\ (shared.errors = {}) => shared.err = 0
              /\ (shared.errors # {}) => shared.err \in shared.errors

(***************************************************************************)
(* Query.Run (package db).  A Query is configured by its caller with a     *)
(* Result destination, a Results callback or neither, and run several      *)
(* times on a connection whose table holds some rows at each run.  Query   *)
(* (the statement text) is not changed between the runs.                   *)
(***************************************************************************)
MaxRuns == 3            \* Run calls made on one Query
MaxRows == 2            \* rows the statement finds in one run

Configurations == {"Result", "Results", "none"}
RunFailures == {"", "PrepareContext", "QueryContext"}

\* the Query as its caller set it up; destination is the caller's variable
\* that Result points at: 0 while nothing was written to it, else the number
\* of the run that wrote it
NewQuery(configured, prepared) ==
    [configured |-> configured, Prepared |-> prepared,
     Result |-> configured = "Result", Results |-> configured = "Results",
     stmt |-> FALSE, handlers |-> FALSE, RowsAffected |-> 0,
     destination |-> 0, received |-> 0, sent |-> <<>>, runs |-> 0, err |-> FALSE]

\* the else branch of the single row case
NoRow(q) == [q EXCEPT !.Result = FALSE]

\* the statement sent for rows, and what is done with the rows
Requested(q, rows, failure) ==
    LET q1 == [q EXCEPT !.sent = Append(@, "QueryContext")]
    IN IF failure = "QueryContext" THEN [q1 EXCEPT !.err = TRUE]
       ELSE LET q2 == [q1 EXCEPT !.handlers = TRUE]
            IN IF q2.Results THEN [q2 EXCEPT !.received = rows]
               ELSE IF rows > 0 THEN [q2 EXCEPT !.destination = q.runs + 1]
               ELSE NoRow(q2)

\* the statement sent for no rows
Executed(q, rows, failure) ==
    LET q1 == [q EXCEPT !.sent = Append(@, "ExecContext")]
    IN IF failure = "QueryContext" THEN [q1 EXCEPT !.err = TRUE]
       ELSE [q1 EXCEPT !.RowsAffected = rows]

\* Query.Run
Run(q, rows, failure) ==
    LET q0 == [q EXCEPT !.err = FALSE]
        prepares == q0.Prepared /\ ~q0.stmt
        q1 == IF prepares THEN [q0 EXCEPT !.sent = Append(@, "PrepareContext"),
                                          !.stmt = failure # "PrepareContext"]
              ELSE q0
    IN IF prepares /\ failure = "PrepareContext" THEN [q1 EXCEPT !.err = TRUE]
       ELSE IF q1.Results \/ q1.Result THEN Requested(q1, rows, failure)
       ELSE Executed(q1, rows, failure)

InitQuery ==
    /\ \E configured \in Configurations : \E prepared \in BOOLEAN :
          query = NewQuery(configured, prepared)
    /\ ValidatorIdle
    /\ BuilderIdle
    /\ TreeIdle
    /\ TypesIdle
    /\ RunIdle
    /\ OptionsIdle
    /\ MergeIdle

\* err := q.Run(ctx, able)
CallRun(rows, failure) ==
    /\ query.runs < MaxRuns
    /\ query' = [Run(query, rows, failure) EXCEPT !.runs = @ + 1]
    /\ UNCHANGED <<vvars, bvars, tvars, cvars, rvars, ovars, mvars>>

NextQuery == \E rows \in 0..MaxRows : \E failure \in RunFailures : CallRun(rows, failure)

SpecQuery == InitQuery /\ [][NextQuery]_vars

\* C30: a Query set up with a Result destination keeps it whatever its
\* runs find, and every statement it sends after preparing is a request
\* for rows.
C30_ResultStaysAttached ==
    (query.configured = "Result") =>
        /\ query.Result
        /\ \A i \in 1..Len(query.sent) : query.sent[i] # "ExecContext"

\* the runnables inside Run, and the times Run was entered for a runnable
InsideRun == {i \in DOMAIN routine : routine[i] = "Run"}
Started(i) == shared.runs[i] + (IF i \in InsideRun THEN 1 ELSE 0)

\* C29: RunPooled with a pool of at least one slot never has more than
\* poolSize runnables inside Run, enters Run at most once for a runnable,
\* and, when no runnable returns an error, goes on until it returns, every
\* runnable having run once.
C29_PoolBound ==
    (runnables.runner = "RunPooled" /\ runnables.poolSize >= 1) =>
        /\ Cardinality(InsideRun) <= runnables.poolSize
        /\ \A i \in DOMAIN routine : Started(i) <= 1
        /\ (\A i \in DOMAIN routine : ~runnables.many[i]) =>
              /\ shared.errors = {}
              /\ shared.pc = "returned" \/ ENABLED NextRun
              /\ (shared.pc = "returned") =>
                    \A i \in DOMAIN routine : Started(i) = 1 /\ routine[i] = "exit"

\* the pool is full while a runnable waits for a slot, and the runner goes
\* on to return with every runnable run
C29_Witness ==
    /\ runnables.runner = "RunPooled" /\ runnables.poolSize >= 1
    /\ Len(runnables.many) = MaxRunnables
    /\ \A i \in DOMAIN routine : ~runnables.many[i]
    /\ Cardinality(InsideRun) = runnables.poolSize
    /\ \E i \in DOMAIN routine : routine[i] = "jobs"
    /\ \E i \in DOMAIN routine : routine[i] = "exit" /\ shared.runs[i] = 1

====
